---- MODULE Spec2Model ----
(***************************************************************************)
(* Model of the query-and-cache layer of the gym facility search API:      *)
(* FacilitiesService (getFacilities, getFacilityById and their helpers),   *)
(* the cache and the document store it mediates between, and the seeding   *)
(* of the store.                                                           *)
(*                                                                         *)
(* Strings are sequences of one-character strings, so that the cache key   *)
(* is built by real concatenation and two different parameter sets can be  *)
(* observed to stringify to the same key.  An optional (possibly           *)
(* undefined) JavaScript value is a sequence of length 0 (undefined) or 1. *)
(***************************************************************************)
EXTENDS Integers, Sequences, FiniteSets, TLC

(***************************************************************************)
(* Bounds of the model.                                                    *)
(***************************************************************************)
\* how many requests are issued in one behaviour (all may be in flight at once)
MaxRequests == 2
\* how many clock ticks (of TickSeconds each) a behaviour may take
MaxTicks == 3

(***************************************************************************)
(* Program constants.                                                      *)
(***************************************************************************)
DEFAULT_PAGE_SIZE == 20
MAX_PAGE_SIZE == 100
CACHE_TTL_FACILITY_BY_ID == 3600
CACHE_TTL_LIST_NO_FILTER == 1800
CACHE_TTL_LIST_WITH_FILTER == 600
SEED_BATCH_SIZE == 1000

(***************************************************************************)
(* Characters and strings.                                                 *)
(***************************************************************************)
\* the characters the model uses, in UTF-16 code unit order
Chars ==
    << "$", "(", ")", "*", "+", ",", "-", ".", "0", "1", "2", "3", "4", "5", "6", "7", "8", "9", ":", "?",
       "A", "B", "C", "D", "E", "F", "G", "H", "I", "J", "K", "L", "M",
       "N", "O", "P", "Q", "R", "S", "T", "U", "V", "W", "X", "Y", "Z", "[", "\\", "]", "^",
       "a", "b", "c", "d", "e", "f", "g", "h", "i", "j", "k", "l", "m",
       "n", "o", "p", "q", "r", "s", "t", "u", "v", "w", "x", "y", "z", "{", "|", "}" >>

\* the code unit order of the characters, as a table
CharCodes ==
    [c \in {Chars[i] : i \in 1..Len(Chars)} |-> CHOOSE i \in 1..Len(Chars) : Chars[i] = c]

CharCode(c) == CharCodes[c]

\* s < t in the order JavaScript's default sort and MongoDB's simple
\* collation use: lexicographic by code unit, a proper prefix first
RECURSIVE StrLess(_, _)
StrLess(s, t) ==
    IF t = <<>> THEN FALSE
    ELSE IF s = <<>> THEN TRUE
    ELSE IF Head(s) = Head(t) THEN StrLess(Tail(s), Tail(t))
    ELSE CharCode(Head(s)) < CharCode(Head(t))

RECURSIVE Concat(_)
Concat(ss) == IF ss = <<>> THEN <<>> ELSE Head(ss) \o Concat(Tail(ss))

\* Array.prototype.join
RECURSIVE Join(_, _)
Join(ss, sep) ==
    IF ss = <<>> THEN <<>>
    ELSE IF Len(ss) = 1 THEN ss[1]
    ELSE ss[1] \o sep \o Join(Tail(ss), sep)

\* insertion of the string x into the sorted sequence ss, after its equals
RECURSIVE InsertStr(_, _)
InsertStr(x, ss) ==
    IF ss = <<>> THEN <<x>>
    ELSE IF StrLess(x, Head(ss)) THEN <<x>> \o ss
    ELSE <<Head(ss)>> \o InsertStr(x, Tail(ss))

\* Array.prototype.sort() with no comparator, on an array of strings
RECURSIVE SortStrings(_)
SortStrings(ss) ==
    IF ss = <<>> THEN <<>>
    ELSE InsertStr(ss[Len(ss)], SortStrings(SubSeq(ss, 1, Len(ss) - 1)))

Digit(n) == Chars[CharCode("0") + n]

\* String(n) of an integer
RECURSIVE NatToStr(_)
NatToStr(n) ==
    IF n < 0 THEN <<"-">> \o NatToStr(0 - n)
    ELSE IF n < 10 THEN <<Digit(n)>>
    ELSE NatToStr(n \div 10) \o <<Digit(n % 10)>>

Min2(a, b) == IF a < b THEN a ELSE b
Max2(a, b) == IF a > b THEN a ELSE b

\* the literal "undefined", what a template literal makes of undefined
UNDEFINED == <<"u", "n", "d", "e", "f", "i", "n", "e", "d">>

(***************************************************************************)
(* JavaScript values.                                                      *)
(***************************************************************************)
\* an optional value: <<>> is undefined, <<v>> is v
Has(o) == o # <<>>
Val(o) == o[1]
OrDefault(o, d) == IF Has(o) THEN o[1] ELSE d

\* a parameter value as generateCacheKey receives it
JsUndef == [t |-> "undefined", s |-> <<>>, n |-> 0, a |-> <<>>]
JsStr(x) == [t |-> "string", s |-> x, n |-> 0, a |-> <<>>]
JsNum(x) == [t |-> "number", s |-> <<>>, n |-> x, a |-> <<>>]
JsArr(x) == [t |-> "array", s |-> <<>>, n |-> 0, a |-> x]
JsOptStr(o) == IF Has(o) THEN JsStr(o[1]) ELSE JsUndef
JsOptArr(o) == IF Has(o) THEN JsArr(o[1]) ELSE JsUndef

\* `${value}`: what a template literal makes of a value
ToStr(v) ==
    CASE v.t = "undefined" -> UNDEFINED
      [] v.t = "string" -> v.s
      [] v.t = "number" -> NatToStr(v.n)
      [] v.t = "array" -> Join(v.a, <<",">>)

(***************************************************************************)
(* The words of the program.                                               *)
(***************************************************************************)
W_facilities == <<"f", "a", "c", "i", "l", "i", "t", "i", "e", "s">>
W_facility == <<"f", "a", "c", "i", "l", "i", "t", "y">>
W_amenities == <<"a", "m", "e", "n", "i", "t", "i", "e", "s">>
W_amenityMatchMode ==
    <<"a", "m", "e", "n", "i", "t", "y", "M", "a", "t", "c", "h", "M", "o", "d", "e">>
W_limit == <<"l", "i", "m", "i", "t">>
W_name == <<"n", "a", "m", "e">>
W_page == <<"p", "a", "g", "e">>
W_sortBy == <<"s", "o", "r", "t", "B", "y">>
W_sortOrder == <<"s", "o", "r", "t", "O", "r", "d", "e", "r">>
W_id == <<"i", "d">>
W_all == <<"a", "l", "l">>
W_any == <<"a", "n", "y">>
W_exact == <<"e", "x", "a", "c", "t">>
W_asc == <<"a", "s", "c">>
W_desc == <<"d", "e", "s", "c">>
W_city == <<"c", "i", "t", "y">>
W_rating == <<"r", "a", "t", "i", "n", "g">>

ALLOWED_SORT_FIELDS == <<W_name, W_city, W_rating>>

(***************************************************************************)
(* Cache policy.                                                           *)
(***************************************************************************)
\* JavaScript truthiness of `name` and of `amenities?.length`
NameTruthy(name) == Has(name) /\ Val(name) # <<>>
AmenitiesLength(amenities) == Has(amenities) /\ Len(Val(amenities)) > 0

\* a policy that caches filtered queries as deep as unfiltered ones
shouldCacheQuery_SameDepth(name, amenities, page) == page <= 3

shouldCacheQuery(name, amenities, page) ==
    IF ~NameTruthy(name) /\ ~AmenitiesLength(amenities) /\ page <= 3 THEN TRUE
    ELSE IF (NameTruthy(name) \/ AmenitiesLength(amenities)) /\ page <= 2 THEN TRUE
    ELSE FALSE

\* the revision of src/facilities/facilities.service.ts: `(name || amenities)`
\* is true of an empty array too
shouldCacheQueryOld(name, amenities, page) ==
    IF ~NameTruthy(name) /\ (~Has(amenities) \/ Len(Val(amenities)) = 0) /\ page <= 3
    THEN TRUE
    ELSE IF (NameTruthy(name) \/ Has(amenities)) /\ page <= 2 THEN TRUE
    ELSE FALSE

\* `name || amenities`: an empty amenities array is truthy and counts as a
\* filter
getCacheTTL_ArrayTruthy(name, amenities) ==
    IF NameTruthy(name) \/ Has(amenities)
    THEN CACHE_TTL_LIST_WITH_FILTER
    ELSE CACHE_TTL_LIST_NO_FILTER

getCacheTTL(name, amenities) ==
    IF NameTruthy(name) \/ AmenitiesLength(amenities)
    THEN CACHE_TTL_LIST_WITH_FILTER
    ELSE CACHE_TTL_LIST_NO_FILTER

(***************************************************************************)
(* Cache key builder.                                                      *)
(***************************************************************************)
\* array values serialised in the order the caller gave them
normaliseParams_NoSort(params) == params

\* params are a sequence of [key, value] in the order the object literal
\* lists them
normaliseParams(params) ==
    [i \in 1..Len(params) |->
        [key |-> params[i].key,
         value |-> IF params[i].value.t = "array"
                   THEN JsArr(SortStrings(params[i].value.a))
                   ELSE params[i].value]]

ParamOf(params, key) == params[CHOOSE i \in 1..Len(params) : params[i].key = key].value

generateCacheKey(prefix, params) ==
    LET normalised == normaliseParams(params)
        keys == SortStrings([i \in 1..Len(normalised) |-> normalised[i].key])
        serialized ==
            Join([i \in 1..Len(keys) |->
                    keys[i] \o <<":">> \o ToStr(ParamOf(normalised, keys[i]))],
                 <<"|">>)
    IN  prefix \o <<":">> \o serialized


(***************************************************************************)
(* Regular expressions, as far as the service builds them: literals,       *)
(* escaped characters, '.', and the anchors '^' and '$'; flag 'i'.         *)
(***************************************************************************)
REGEX_META == {".", "*", "+", "?", "^", "$", "{", "}", "(", ")", "|", "[", "]", "\\"}

RECURSIVE escapeRegex(_)
escapeRegex(value) ==
    IF value = <<>> THEN <<>>
    ELSE (IF Head(value) \in REGEX_META THEN <<"\\", Head(value)>> ELSE <<Head(value)>>)
         \o escapeRegex(Tail(value))

Lower(c) ==
    IF CharCode(c) >= CharCode("A") /\ CharCode(c) <= CharCode("Z")
    THEN Chars[CharCode(c) - CharCode("A") + CharCode("a")]
    ELSE c

RECURSIVE RegexTokens(_)
RegexTokens(p) ==
    IF p = <<>> THEN <<>>
    ELSE IF Head(p) = "\\" /\ Len(p) >= 2
         THEN <<[kind |-> "lit", ch |-> p[2]]>> \o RegexTokens(Tail(Tail(p)))
    ELSE IF Head(p) = "." THEN <<[kind |-> "any", ch |-> "."]>> \o RegexTokens(Tail(p))
    ELSE IF Head(p) = "^" THEN <<[kind |-> "bol", ch |-> "^"]>> \o RegexTokens(Tail(p))
    ELSE IF Head(p) = "$" THEN <<[kind |-> "eol", ch |-> "$"]>> \o RegexTokens(Tail(p))
    ELSE <<[kind |-> "lit", ch |-> Head(p)]>> \o RegexTokens(Tail(p))

RECURSIVE MatchHere(_, _)
MatchHere(toks, s) ==
    IF toks = <<>> THEN TRUE
    ELSE CASE Head(toks).kind = "eol" -> s = <<>> /\ MatchHere(Tail(toks), s)
           [] Head(toks).kind = "bol" -> FALSE
           [] Head(toks).kind = "any" -> s # <<>> /\ MatchHere(Tail(toks), Tail(s))
           [] Head(toks).kind = "lit" ->
                /\ s # <<>>
                /\ Lower(Head(s)) = Lower(Head(toks).ch)
                /\ MatchHere(Tail(toks), Tail(s))

\* new RegExp(pattern, 'i').test(s)
RegexTest(pattern, s) ==
    LET toks == RegexTokens(pattern)
    IN  IF toks # <<>> /\ Head(toks).kind = "bol"
        THEN MatchHere(Tail(toks), s)
        ELSE \E i \in 0..Len(s) : MatchHere(toks, SubSeq(s, i + 1, Len(s)))

(***************************************************************************)
(* Filter translator.                                                      *)
(***************************************************************************)
\* the name handed to $regex as it came
createCaseInsensitiveRegex_Raw(value) == value

\* { $regex: escapeRegex(value), $options: 'i' }
createCaseInsensitiveRegex(value) == escapeRegex(value)

\* the store filter: an optional regex on name, and an optional condition
\* (op, regexes, size) on an array field
buildMongoFilter(name, amenities, amenityMatchMode) ==
    [name |-> IF NameTruthy(name) THEN <<createCaseInsensitiveRegex(Val(name))>> ELSE <<>>,
     arr |-> IF AmenitiesLength(amenities)
             THEN LET amenityRegexes ==
                          [i \in 1..Len(Val(amenities)) |->
                              <<"^">> \o escapeRegex(Val(amenities)[i]) \o <<"$">>]
                  IN  IF amenityMatchMode \in {W_all, W_any, W_exact}
                      THEN <<[field |-> "amenities",
                              op |-> amenityMatchMode,
                              regexes |-> amenityRegexes,
                              size |-> Len(Val(amenities))]>>
                      ELSE <<>>
             ELSE <<>>]

\* the requested field handed to the store unchecked
buildSortOptions_Unchecked(sortBy, sortOrder) ==
    [field |-> sortBy, dir |-> IF sortOrder = W_asc THEN 1 ELSE -1]

buildSortOptions(sortBy, sortOrder) ==
    [field |-> IF \E i \in 1..Len(ALLOWED_SORT_FIELDS) : ALLOWED_SORT_FIELDS[i] = sortBy
               THEN sortBy
               ELSE W_name,
     dir |-> IF sortOrder = W_asc THEN 1 ELSE -1]

\* an offset that counts the requested page in
calculateOffset_Inclusive(page, limit) == page * limit

calculateOffset(page, limit) == (page - 1) * limit

(***************************************************************************)
(* The document store: a collection of facility documents, in insertion    *)
(* order.  The schema's fields are id, name and facilities (address and    *)
(* location take no part in any query and are left out).                   *)
(***************************************************************************)
\* the value of an array field of a document, if the document has the field
ArrayField(doc, field) == IF field = "facilities" THEN <<doc.facilities>> ELSE <<>>

\* the value of a sort field of a document, if the document has the field
SortField(doc, field) ==
    IF field = W_name THEN <<doc.name>>
    ELSE IF field = W_id THEN <<doc.id>>
    ELSE <<>>

\* $all / $in / ($all and $size) of regexes against an array field
ArrayMatches(doc, c) ==
    LET f == ArrayField(doc, c.field)
        hasOne(r) == \E j \in 1..Len(Val(f)) : RegexTest(r, Val(f)[j])
        all == \A i \in 1..Len(c.regexes) : hasOne(c.regexes[i])
        any == \E i \in 1..Len(c.regexes) : hasOne(c.regexes[i])
    IN  /\ Has(f)
        /\ CASE c.op = W_all -> all
             [] c.op = W_any -> any
             [] c.op = W_exact -> all /\ Len(Val(f)) = c.size

MatchesFilter(doc, filter) ==
    /\ Has(filter.name) => RegexTest(Val(filter.name), doc.name)
    /\ Has(filter.arr) => ArrayMatches(doc, Val(filter.arr))

RECURSIVE FilterDocs(_, _)
FilterDocs(docs, filter) ==
    IF docs = <<>> THEN <<>>
    ELSE (IF MatchesFilter(Head(docs), filter) THEN <<Head(docs)>> ELSE <<>>)
         \o FilterDocs(Tail(docs), filter)

\* a sorts before b: a missing field sorts as null, before every string;
\* equal keys keep their insertion order
DocBefore(a, b, sort) ==
    LET ka == SortField(a, sort.field)
        kb == SortField(b, sort.field)
        less(x, y) == IF ~Has(y) THEN FALSE ELSE IF ~Has(x) THEN TRUE
                      ELSE StrLess(Val(x), Val(y))
    IN  IF sort.dir = 1 THEN less(ka, kb) ELSE less(kb, ka)

RECURSIVE InsertDoc(_, _, _)
InsertDoc(x, docs, sort) ==
    IF docs = <<>> THEN <<x>>
    ELSE IF DocBefore(x, Head(docs), sort) THEN <<x>> \o docs
    ELSE <<Head(docs)>> \o InsertDoc(x, Tail(docs), sort)

RECURSIVE SortDocs(_, _)
SortDocs(docs, sort) ==
    IF docs = <<>> THEN <<>>
    ELSE InsertDoc(docs[Len(docs)], SortDocs(SubSeq(docs, 1, Len(docs) - 1), sort), sort)

\* find(filter).sort(sort).skip(offset).limit(limit)
StoreFind(docs, filter, sort, offset, limit) ==
    LET sorted == SortDocs(FilterDocs(docs, filter), sort)
    IN  SubSeq(sorted, offset + 1, Min2(offset + limit, Len(sorted)))

\* countDocuments(filter)
StoreCount(docs, filter) == Len(FilterDocs(docs, filter))

\* findOne({ id })
StoreFindOne(docs, id) ==
    LET hits == {i \in 1..Len(docs) : docs[i].id = id}
    IN  IF hits = {} THEN <<>> ELSE <<docs[CHOOSE i \in hits : \A j \in hits : i <= j]>>

CeilDiv(a, b) == (a + b - 1) \div b


(***************************************************************************)
(* The static dataset the store is seeded from, and the requests the       *)
(* model issues.                                                           *)
(***************************************************************************)
Facility(id, name, facilities) == [id |-> id, name |-> name, facilities |-> facilities]

Dataset ==
    << Facility(<<"1">>, <<"C", "i">>, << <<"P">>, <<"G">> >>),
       Facility(<<"2">>, <<"b", ".", "c">>, << <<"P">>, <<"G">>, <<"S">> >>),
       Facility(<<"3">>, <<"B", "x", "c">>, << <<"G">> >>) >>

\* a query descriptor as the controller hands it over: every field optional
Dto(name, amenities, amenityMatchMode, page, limit, sortBy, sortOrder) ==
    [name |-> name, amenities |-> amenities, amenityMatchMode |-> amenityMatchMode,
     page |-> page, limit |-> limit, sortBy |-> sortBy, sortOrder |-> sortOrder]

NoDto == Dto(<<>>, <<>>, <<>>, <<>>, <<>>, <<>>, <<>>)
PageOf(dto, p) == [dto EXCEPT !.page = <<p>>]

(***************************************************************************)
(* State.                                                                  *)
(***************************************************************************)
VARIABLES
    store,      \* the facilities collection: documents in insertion order
    seedPc,     \* seed(): "idle", or the index of the next record to insert
    cache,      \* the cache: key -> [value, ttl, expiresAt]
    now,        \* the clock, in ticks of TickSeconds
    reqs,       \* the requests issued so far, each with its position and locals
    pin,        \* input of the pure-function specifications
    pout        \* output of the pure-function specifications

vars == <<store, seedPc, cache, now, reqs, pin, pout>>

TickSeconds == CACHE_TTL_LIST_WITH_FILTER
Seconds == now * TickSeconds

NoCache == [k \in {} |-> 0]
NoValue == [none |-> TRUE]

(***************************************************************************)
(* getFacilities: the locals of one request.                               *)
(***************************************************************************)
PageDefault(dto) == OrDefault(dto.page, 1)
RequestedLimit(dto) == OrDefault(dto.limit, DEFAULT_PAGE_SIZE)
ModeOf(dto) == OrDefault(dto.amenityMatchMode, W_all)
SortByOf(dto) == OrDefault(dto.sortBy, W_name)
SortOrderOf(dto) == OrDefault(dto.sortOrder, W_asc)

SafePage(dto) == Max2(1, PageDefault(dto))
\* a limit with the floor but without the ceiling
LimitOf_NoCeiling(dto) == Max2(1, RequestedLimit(dto))

LimitOf(dto) == Min2(Max2(1, RequestedLimit(dto)), MAX_PAGE_SIZE)

ShouldCache(dto) == shouldCacheQuery(dto.name, dto.amenities, SafePage(dto))

\* cache params taken from the raw request, before the defaults
cacheParams_Raw(dto) ==
    << [key |-> W_name, value |-> JsOptStr(dto.name)],
       [key |-> W_amenities, value |-> JsOptArr(dto.amenities)],
       [key |-> W_amenityMatchMode, value |-> JsOptStr(dto.amenityMatchMode)],
       [key |-> W_page, value |-> IF Has(dto.page) THEN JsNum(Val(dto.page)) ELSE JsUndef],
       [key |-> W_limit, value |-> IF Has(dto.limit) THEN JsNum(Val(dto.limit)) ELSE JsUndef],
       [key |-> W_sortBy, value |-> JsOptStr(dto.sortBy)],
       [key |-> W_sortOrder, value |-> JsOptStr(dto.sortOrder)] >>

cacheParams(dto) ==
    << [key |-> W_name, value |-> JsOptStr(dto.name)],
       [key |-> W_amenities, value |-> JsOptArr(dto.amenities)],
       [key |-> W_amenityMatchMode, value |-> JsStr(ModeOf(dto))],
       [key |-> W_page, value |-> JsNum(SafePage(dto))],
       [key |-> W_limit, value |-> JsNum(LimitOf(dto))],
       [key |-> W_sortBy, value |-> JsStr(SortByOf(dto))],
       [key |-> W_sortOrder, value |-> JsStr(SortOrderOf(dto))] >>

\* the key of the cache read of a listing
ListReadKey(dto) == generateCacheKey(W_facilities, cacheParams(dto))

\* a write key built without the match mode
ListWriteKey_NoMode(dto) ==
    generateCacheKey(W_facilities,
                     SelectSeq(cacheParams(dto), LAMBDA p : p.key # W_amenityMatchMode))

\* the key of the cache write of a listing
ListWriteKey(dto) == generateCacheKey(W_facilities, cacheParams(dto))
ListWriteTTL(dto) == getCacheTTL(dto.name, dto.amenities)

\* the key and the TTL of a single-item lookup
IdKey(id) == generateCacheKey(W_facility, << [key |-> W_id, value |-> JsStr(id)] >>)

IdWriteTTL == CACHE_TTL_FACILITY_BY_ID

MongoFilterOf(dto) == buildMongoFilter(dto.name, dto.amenities, ModeOf(dto))

\* the find and the count of one listing, on the collection as it is
FindOf(docs, dto) ==
    StoreFind(docs, MongoFilterOf(dto), buildSortOptions(SortByOf(dto), SortOrderOf(dto)),
              calculateOffset(SafePage(dto), LimitOf(dto)), LimitOf(dto))
\* a total that counts the page found instead of the matching documents
CountOf_ThePage(docs, dto) == Len(FindOf(docs, dto))

CountOf(docs, dto) == StoreCount(docs, MongoFilterOf(dto))

\* totalPages without the floor of 1: Math.ceil(totalCount / limit)
PaginatedResult_NoFloor(dto, facilities, totalCount) ==
    LET totalPages == CeilDiv(totalCount, LimitOf(dto))
    IN  [data |-> facilities,
         meta |-> [total |-> totalCount,
                   page |-> SafePage(dto),
                   limit |-> LimitOf(dto),
                   totalPages |-> totalPages,
                   hasNextPage |-> SafePage(dto) < totalPages,
                   hasPreviousPage |-> SafePage(dto) > 1]]

\* the PaginatedResult composed from what find and count answered
PaginatedResult(dto, facilities, totalCount) ==
    LET totalPages == Max2(1, CeilDiv(totalCount, LimitOf(dto)))
    IN  [data |-> facilities,
         meta |-> [total |-> totalCount,
                   page |-> SafePage(dto),
                   limit |-> LimitOf(dto),
                   totalPages |-> totalPages,
                   hasNextPage |-> SafePage(dto) < totalPages,
                   hasPreviousPage |-> SafePage(dto) > 1]]

\* what the request gets from the store alone, the collection being docs
StoreListing(docs, dto) == PaginatedResult(dto, FindOf(docs, dto), CountOf(docs, dto))

(***************************************************************************)
(* The cache.                                                              *)
(***************************************************************************)
\* a get that hands out the stored entry instead of its value
CacheLookup_Entry(key) ==
    IF key \in DOMAIN cache /\ Seconds < cache[key].expiresAt
    THEN <<cache[key]>>
    ELSE <<>>

\* get(key): the value, if there is an entry that has not expired
CacheLookup(key) ==
    IF key \in DOMAIN cache /\ Seconds < cache[key].expiresAt
    THEN <<cache[key].value>>
    ELSE <<>>

\* a set whose entry lives twice the ttl it was given
CachePut_Long(key, value, ttl) ==
    [k \in DOMAIN cache \cup {key} |->
        IF k = key
        THEN [value |-> value, ttl |-> ttl, expiresAt |-> Seconds + ttl + ttl]
        ELSE cache[k]]

\* set(key, value, ttl)
CachePut(key, value, ttl) ==
    [k \in DOMAIN cache \cup {key} |->
        IF k = key
        THEN [value |-> value, ttl |-> ttl, expiresAt |-> Seconds + ttl]
        ELSE cache[k]]


(***************************************************************************)
(* Requests.  A request is at "check" (about to read the cache), "query"   *)
(* (its store operations are in flight), "write" (about to write the       *)
(* cache) or "done" (it has returned or raised).  The fields from fault on *)
(* record what the request did and met; the service does not read them.    *)
(***************************************************************************)
DoneRequests == {i \in 1..Len(reqs) : reqs[i].pc = "done"}

\* is there a document with this id in the collection
Holds(docs, id) == \E j \in 1..Len(docs) : docs[j].id = id

NewRequest(op, dto, id, pc) ==
    [op |-> op, dto |-> dto, id |-> id, pc |-> pc,
     find |-> <<>>, count |-> <<>>, one |-> <<>>,
     result |-> NoValue, outcome |-> "pending", source |-> "none",
     fault |-> "none",
     nGet |-> 0, nSet |-> 0, nFind |-> 0, nCount |-> 0, nFindOne |-> 0,
     setKey |-> <<>>, setTtl |-> <<>>, expired |-> FALSE,
     after |-> DoneRequests, fresh |-> {},
     present |-> Holds(store, id)]

ReadKey(r) == IF r.op = "list" THEN ListReadKey(r.dto) ELSE IdKey(r.id)
WriteKey(r) == IF r.op = "list" THEN ListWriteKey(r.dto) ELSE IdKey(r.id)
WriteTTL(r) == IF r.op = "list" THEN ListWriteTTL(r.dto) ELSE IdWriteTTL

\* getFacilities is entered: the cache is read only if the query is eligible
ListEntryPc(dto) == IF ShouldCache(dto) THEN "check" ELSE "query"
\* once find and count have answered: the cache is written only if eligible
ListAfterQueryPc(dto) == IF ShouldCache(dto) THEN "write" ELSE "done"
\* a lookup that goes to the store without reading the cache
IdEntryPc_NoRead == "query"

\* getFacilityById is entered: the cache is always read
IdEntryPc == "check"

StartList(Q) ==
    /\ Len(reqs) < MaxRequests
    /\ \E dto \in Q :
          reqs' = Append(reqs, NewRequest("list", dto, <<>>, ListEntryPc(dto)))
    /\ UNCHANGED <<store, seedPc, cache, now, pin, pout>>

StartById(I) ==
    /\ Len(reqs) < MaxRequests
    /\ \E id \in I :
          reqs' = Append(reqs, NewRequest("byId", NoDto, id, IdEntryPc))
    /\ UNCHANGED <<store, seedPc, cache, now, pin, pout>>

\* the earlier requests whose cache entry has been in the cache ever since
\* they wrote it
Fresh(r) == {i \in r.after : reqs[i].nSet = 1 /\ reqs[i].outcome = "ok" /\ ~reqs[i].expired}

OnMiss(r) == [r EXCEPT !.pc = "query", !.nGet = @ + 1, !.fresh = Fresh(r)]

\* a hit that is not returned: the request goes on to the store
OnHit_NoReturn(r, cached) == OnMiss(r)

\* `if (cached) return cached`
OnHit(r, cached) ==
    [r EXCEPT !.pc = "done", !.result = cached, !.outcome = "ok", !.source = "cache",
              !.nGet = @ + 1, !.fresh = Fresh(r)]

\* an exception of a cache or store call: there is no handler around the
\* call, so the request raises it
OnCacheGetError(r) ==
    [r EXCEPT !.pc = "done", !.outcome = "cache_failure", !.fault = "get", !.nGet = @ + 1]
OnCacheSetError(r) ==
    [r EXCEPT !.pc = "done", !.outcome = "cache_failure", !.fault = "set", !.nSet = @ + 1]
\* a store failure reported as an absent record
OnStoreError_AsNotFound(r) ==
    [r EXCEPT !.pc = "done", !.outcome = "not_found", !.fault = "store"]

OnStoreError(r) ==
    [r EXCEPT !.pc = "done", !.outcome = "store_failure", !.fault = "store"]

\* await cacheManager.get(cacheKey) answers
CacheGet(i) ==
    /\ reqs[i].pc = "check"
    /\ LET cached == CacheLookup(ReadKey(reqs[i]))
       IN  reqs' = [reqs EXCEPT ![i] = IF Has(cached) THEN OnHit(@, Val(cached))
                                       ELSE OnMiss(@)]
    /\ UNCHANGED <<store, seedPc, cache, now, pin, pout>>

\* await cacheManager.get(cacheKey) raises
CacheGetFails(i) ==
    /\ reqs[i].pc = "check"
    /\ reqs' = [reqs EXCEPT ![i] = OnCacheGetError(@)]
    /\ UNCHANGED <<store, seedPc, cache, now, pin, pout>>

\* a result composed, and passed on to the cache write, as soon as find
\* has answered
Composed_AfterFind(r) ==
    IF Has(r.find)
    THEN [r EXCEPT !.result = PaginatedResult(r.dto, Val(r.find), Len(Val(r.find))),
                   !.source = "store",
                   !.pc = ListAfterQueryPc(r.dto),
                   !.outcome = IF ListAfterQueryPc(r.dto) = "done" THEN "ok" ELSE @]
    ELSE r

\* an empty page treated as an error
Composed_EmptyIsError(r) ==
    IF Has(r.find) /\ Has(r.count)
    THEN IF Val(r.find) = <<>>
         THEN [r EXCEPT !.pc = "done", !.outcome = "not_found"]
         ELSE [r EXCEPT !.result = PaginatedResult(r.dto, Val(r.find), Val(r.count)),
                        !.source = "store",
                        !.pc = ListAfterQueryPc(r.dto),
                        !.outcome = IF ListAfterQueryPc(r.dto) = "done" THEN "ok" ELSE @]
    ELSE r

\* the request with both answers of Promise.all in: the result is composed
Composed(r) ==
    IF Has(r.find) /\ Has(r.count)
    THEN [r EXCEPT !.result = PaginatedResult(r.dto, Val(r.find), Val(r.count)),
                   !.source = "store",
                   !.pc = ListAfterQueryPc(r.dto),
                   !.outcome = IF ListAfterQueryPc(r.dto) = "done" THEN "ok" ELSE @]
    ELSE r

\* find(...).exec() answers
Find(i) ==
    /\ reqs[i].op = "list" /\ reqs[i].pc = "query" /\ ~Has(reqs[i].find)
    /\ reqs' = [reqs EXCEPT ![i] =
                   Composed([@ EXCEPT !.find = <<FindOf(store, reqs[i].dto)>>,
                                      !.nFind = @ + 1])]
    /\ UNCHANGED <<store, seedPc, cache, now, pin, pout>>

\* countDocuments(...).exec() answers
Count(i) ==
    /\ reqs[i].op = "list" /\ reqs[i].pc = "query" /\ ~Has(reqs[i].count)
    /\ reqs' = [reqs EXCEPT ![i] =
                   Composed([@ EXCEPT !.count = <<CountOf(store, reqs[i].dto)>>,
                                      !.nCount = @ + 1])]
    /\ UNCHANGED <<store, seedPc, cache, now, pin, pout>>

\* an absent record passed on to the cache write (negative caching)
OnAbsent_Negative(r) ==
    [r EXCEPT !.pc = "write", !.result = NoValue, !.source = "store",
              !.one = << <<>> >>, !.nFindOne = @ + 1]

\* an absent record answered as an empty success
OnAbsent_EmptySuccess(r) ==
    [r EXCEPT !.pc = "done", !.outcome = "ok", !.source = "store", !.one = << <<>> >>,
              !.nFindOne = @ + 1]

\* `if (!facility) throw new NotFoundException(...)`
OnAbsent(r) ==
    [r EXCEPT !.pc = "done", !.outcome = "not_found", !.one = << <<>> >>,
              !.nFindOne = @ + 1]

\* `const dto = facility as FacilityResponseDto`, on to the cache write
OnFound(r, facility) ==
    [r EXCEPT !.pc = "write", !.result = facility, !.source = "store",
              !.one = << <<facility>> >>, !.nFindOne = @ + 1]

\* findOne({ id }).exec() answers
FindOne(i) ==
    /\ reqs[i].op = "byId" /\ reqs[i].pc = "query"
    /\ LET facility == StoreFindOne(store, reqs[i].id)
       IN  reqs' = [reqs EXCEPT ![i] = IF ~Has(facility) THEN OnAbsent(@)
                                       ELSE OnFound(@, Val(facility))]
    /\ UNCHANGED <<store, seedPc, cache, now, pin, pout>>

\* a store operation of the request raises
StoreFails(i) ==
    /\ reqs[i].pc = "query"
    /\ reqs' = [reqs EXCEPT ![i] = OnStoreError(@)]
    /\ UNCHANGED <<store, seedPc, cache, now, pin, pout>>

\* await cacheManager.set(cacheKey, result, ttl) answers, and the request
\* returns its result
CacheSet(i) ==
    /\ reqs[i].pc = "write"
    /\ cache' = CachePut(WriteKey(reqs[i]), reqs[i].result, WriteTTL(reqs[i]))
    /\ reqs' = [reqs EXCEPT ![i] =
                   [@ EXCEPT !.pc = "done", !.outcome = "ok", !.nSet = @ + 1,
                             !.setKey = <<WriteKey(reqs[i])>>,
                             !.setTtl = <<WriteTTL(reqs[i])>>]]
    /\ UNCHANGED <<store, seedPc, now, pin, pout>>

\* await cacheManager.set(...) raises
CacheSetFails(i) ==
    /\ reqs[i].pc = "write"
    /\ reqs' = [reqs EXCEPT ![i] = OnCacheSetError(@)]
    /\ UNCHANGED <<store, seedPc, cache, now, pin, pout>>

(***************************************************************************)
(* Seeding: deleteMany({}), then insertMany of the dataset in batches.     *)
(* seedPc is 0 when no seed runs, else the index of the next record.       *)
(***************************************************************************)
\* a seed that also empties the cache
SeedClear_Flush ==
    /\ seedPc = 0
    /\ store' = <<>>
    /\ seedPc' = 1
    /\ cache' = NoCache
    /\ UNCHANGED <<now, reqs, pin, pout>>

\* a seed that inserts without deleting first
SeedClear_NoDelete ==
    /\ seedPc = 0
    /\ store' = store
    /\ seedPc' = 1
    /\ UNCHANGED <<cache, now, reqs, pin, pout>>

\* clearExistingFacilities
SeedClear ==
    /\ seedPc = 0
    /\ store' = <<>>
    /\ seedPc' = 1
    /\ UNCHANGED <<cache, now, reqs, pin, pout>>

\* one turn of the loop of insertFacilitiesInBatches; seed() returns after
\* the last batch
SeedInsertBatchOf(facilities) ==
    /\ seedPc >= 1
    /\ LET last == Min2(seedPc + SEED_BATCH_SIZE - 1, Len(facilities))
       IN  /\ store' = store \o SubSeq(facilities, seedPc, last)
           /\ seedPc' = IF last = Len(facilities) THEN 0 ELSE last + 1
    /\ reqs' = [i \in 1..Len(reqs) |->
                  IF reqs[i].pc # "done" /\ Holds(store', reqs[i].id)
                  THEN [reqs[i] EXCEPT !.present = TRUE]
                  ELSE reqs[i]]
    /\ UNCHANGED <<cache, now, pin, pout>>

\* the records are those of assets/facilities.json
SeedInsertBatch == SeedInsertBatchOf(Dataset)

(***************************************************************************)
(* Time: the cache drops the entries whose TTL has run out.                *)
(***************************************************************************)
Tick ==
    /\ now < MaxTicks
    /\ now' = now + 1
    /\ LET live == {k \in DOMAIN cache : (now + 1) * TickSeconds < cache[k].expiresAt}
       IN  /\ cache' = [k \in live |-> cache[k]]
           /\ reqs' = [i \in 1..Len(reqs) |->
                         IF Has(reqs[i].setKey) /\ Val(reqs[i].setKey) \notin live
                         THEN [reqs[i] EXCEPT !.expired = TRUE]
                         ELSE reqs[i]]
    /\ UNCHANGED <<store, seedPc, pin, pout>>

(***************************************************************************)
(* Specifications.                                                         *)
(***************************************************************************)
Init ==
    /\ store = Dataset
    /\ seedPc = 0
    /\ cache = NoCache
    /\ now = 0
    /\ reqs = <<>>
    /\ pin = NoValue
    /\ pout = NoValue

\* the listing requests and the ids of the specifications
QUnfiltered == NoDto
QNamed(n) == [NoDto EXCEPT !.name = <<n>>]
QAmenities(a) == [NoDto EXCEPT !.amenities = <<a>>]

\* Spec: requests against an unchanging catalog, with a cache and a store
\* that may fail
Queries == { QUnfiltered, QNamed(UNDEFINED) }
Ids == { <<"1">>, <<"9">> }

Next ==
    \/ StartList(Queries)
    \/ StartById(Ids)
    \/ \E i \in 1..Len(reqs) : CacheGet(i)
    \/ \E i \in 1..Len(reqs) : CacheGetFails(i)
    \/ \E i \in 1..Len(reqs) : Find(i)
    \/ \E i \in 1..Len(reqs) : Count(i)
    \/ \E i \in 1..Len(reqs) : FindOne(i)
    \/ \E i \in 1..Len(reqs) : StoreFails(i)
    \/ \E i \in 1..Len(reqs) : CacheSet(i)
    \/ \E i \in 1..Len(reqs) : CacheSetFails(i)

Spec == Init /\ [][Next]_vars


\* SpecSeed: single-item lookups while the collection is re-seeded, with a
\* cache and a store that answer
SeedIds == { <<"1">>, <<"9">> }

NextSeed ==
    \/ StartById(SeedIds)
    \/ \E i \in 1..Len(reqs) : CacheGet(i)
    \/ \E i \in 1..Len(reqs) : FindOne(i)
    \/ \E i \in 1..Len(reqs) : CacheSet(i)
    \/ SeedClear
    \/ SeedInsertBatch

SpecSeed == Init /\ [][NextSeed]_vars

\* SpecTimed: listings against an unchanging catalog while time passes
TimedQueries == { QUnfiltered, QNamed(UNDEFINED) }

NextTimed ==
    \/ StartList(TimedQueries)
    \/ \E i \in 1..Len(reqs) : CacheGet(i)
    \/ \E i \in 1..Len(reqs) : Find(i)
    \/ \E i \in 1..Len(reqs) : Count(i)
    \/ \E i \in 1..Len(reqs) : CacheSet(i)
    \/ Tick

SpecTimed == Init /\ [][NextTimed]_vars

\* SpecDeep: listings on both sides of the eligibility boundaries
DeepQueries ==
    { PageOf(QUnfiltered, 3), PageOf(QUnfiltered, 4),
      PageOf(QNamed(<<"c">>), 2), PageOf(QNamed(<<"c">>), 3),
      PageOf(QAmenities(<< <<"g">> >>), 3) }

NextDeep ==
    \/ StartList(DeepQueries)
    \/ \E i \in 1..Len(reqs) : CacheGet(i)
    \/ \E i \in 1..Len(reqs) : Find(i)
    \/ \E i \in 1..Len(reqs) : Count(i)
    \/ \E i \in 1..Len(reqs) : CacheSet(i)

SpecDeep == Init /\ [][NextDeep]_vars

\* SpecPolicy: the cache policy as a function of (name, amenities, page)
MaxPolicyPage == 5
PolicyNames == { <<>>, << <<>> >>, << <<"c">> >> }
PolicyAmenities == { <<>>, << <<>> >>, << << <<"g">> >> >>, << << <<"g">>, <<"p">> >> >> }

InitPolicy ==
    /\ store = Dataset
    /\ seedPc = 0
    /\ cache = NoCache
    /\ now = 0
    /\ reqs = <<>>
    /\ pin \in [name : PolicyNames, amenities : PolicyAmenities, page : 1..MaxPolicyPage]
    /\ pout = NoValue

ApplyPolicy ==
    /\ pout = NoValue
    /\ pout' = [should |-> shouldCacheQuery(pin.name, pin.amenities, pin.page),
                shouldOld |-> shouldCacheQueryOld(pin.name, pin.amenities, pin.page),
                ttl |-> getCacheTTL(pin.name, pin.amenities)]
    /\ UNCHANGED <<store, seedPc, cache, now, reqs, pin>>

SpecPolicy == InitPolicy /\ [][ApplyPolicy]_vars

(***************************************************************************)
(* SpecKey: what getFacilities derives from one descriptor (the key, the   *)
(* store query and the response), for a descriptor and a second one to     *)
(* compare it with.                                                        *)
(***************************************************************************)
KeyNames == { <<>>, <<UNDEFINED>>, << <<"c">> >> }
KeyAmenities ==
    { <<>>,
      << << <<"g">>, <<"p">> >> >>,
      << << <<"p">>, <<"g">> >> >>,
      << << <<"g", ",", "p">> >> >> }
KeyModes == { <<>>, <<W_any>> }
KeyPages == { <<>>, <<0 - 1>>, <<0>>, <<1>>, <<2>> }
KeyLimits == { <<>>, <<0 - 5>>, <<0>>, <<DEFAULT_PAGE_SIZE>>, <<MAX_PAGE_SIZE + 1>> }
KeySortBys == { <<>>, <<W_name>> }
KeySortOrders == { <<>>, <<W_asc>> }

\* [...amenities] in the other order
RECURSIVE Reverse(_)
Reverse(s) == IF s = <<>> THEN <<>> ELSE Reverse(Tail(s)) \o <<Head(s)>>
Reordered(dto) ==
    [dto EXCEPT !.amenities = IF Has(@) THEN <<Reverse(Val(@))>> ELSE @]

\* the descriptor with every omitted field set to its default
WithDefaults(dto) ==
    [dto EXCEPT !.amenityMatchMode = <<ModeOf(dto)>>,
                !.page = <<PageDefault(dto)>>,
                !.limit = <<RequestedLimit(dto)>>,
                !.sortBy = <<SortByOf(dto)>>,
                !.sortOrder = <<SortOrderOf(dto)>>]

\* descriptors every descriptor is compared with
KeyProbes ==
    { QUnfiltered, QNamed(UNDEFINED), QNamed(<<"c">>),
      QAmenities(<< <<"g">>, <<"p">> >>), QAmenities(<< <<"g", ",", "p">> >>),
      [QAmenities(<< <<"g">>, <<"p">> >>) EXCEPT !.amenityMatchMode = <<W_any>>],
      PageOf(QUnfiltered, 2), [QUnfiltered EXCEPT !.limit = <<1>>],
      [QUnfiltered EXCEPT !.sortBy = <<W_city>>],
      [QUnfiltered EXCEPT !.sortOrder = <<W_desc>>] }

\* the params object after generateCacheKey has run: normaliseParams sorts
\* a copy, `[...value].sort()`, and leaves the arrays of params as they were
ParamsAfterKey(params) == params

\* everything getFacilities derives from a descriptor, on the seeded store
Derived(dto) ==
    [key |-> ListReadKey(dto),
     writeKey |-> ListWriteKey(dto),
     normalised |-> normaliseParams(cacheParams(dto)),
     amenitiesAfter |-> ParamOf(ParamsAfterKey(cacheParams(dto)), W_amenities),
     filter |-> MongoFilterOf(dto),
     sort |-> buildSortOptions(SortByOf(dto), SortOrderOf(dto)),
     skip |-> calculateOffset(SafePage(dto), LimitOf(dto)),
     limit |-> LimitOf(dto),
     keyPage |-> ParamOf(cacheParams(dto), W_page).n,
     keyLimit |-> ParamOf(cacheParams(dto), W_limit).n,
     shouldCache |-> ShouldCache(dto),
     listing |-> StoreListing(Dataset, dto)]

InitKey ==
    /\ store = Dataset
    /\ seedPc = 0
    /\ cache = NoCache
    /\ now = 0
    /\ reqs = <<>>
    /\ pin \in [name : KeyNames, amenities : KeyAmenities, amenityMatchMode : KeyModes,
                page : KeyPages, limit : KeyLimits,
                sortBy : KeySortBys, sortOrder : KeySortOrders]
    /\ pout = NoValue

ApplyKey ==
    /\ pout = NoValue
    /\ \E other \in {pin, Reordered(pin), WithDefaults(pin)} \cup KeyProbes :
          pout' = [dto |-> pin, other |-> other, a |-> Derived(pin), b |-> Derived(other)]
    /\ UNCHANGED <<store, seedPc, cache, now, reqs, pin>>

SpecKey == InitKey /\ [][ApplyKey]_vars

(***************************************************************************)
(* SpecFilter: the documents a listing finds on the seeded store, as a     *)
(* function of its name filter, its amenity list and its match mode.       *)
(***************************************************************************)
FilterNames ==
    { <<>>, << <<>> >>, << <<"c">> >>, << <<"C">> >>, << <<"i">> >>, << <<"x">> >>,
      << <<".">> >>, << <<"b", ".", "c">> >>, << <<"b", "x", "c">> >>,
      << <<".", "c">> >>, << <<"^">> >>, << <<"c", "$">> >> }
FilterAmenities ==
    { <<>>, << <<>> >>,
      << << <<"g">> >> >>, << << <<"s">> >> >>, << << <<"z">> >> >>,
      << << <<"p">>, <<"g">> >> >>, << << <<"G">>, <<"P">> >> >>,
      << << <<"g">>, <<"g">> >> >> }
FilterModes == { <<>>, <<W_all>>, <<W_any>>, <<W_exact>> }

InitFilter ==
    /\ store = Dataset
    /\ seedPc = 0
    /\ cache = NoCache
    /\ now = 0
    /\ reqs = <<>>
    /\ pin \in [name : FilterNames, amenities : FilterAmenities,
                amenityMatchMode : FilterModes]
    /\ pout = NoValue

\* find and countDocuments of the listing with this filter, first page
ApplyFilter ==
    /\ pout = NoValue
    /\ LET dto == Dto(pin.name, pin.amenities, pin.amenityMatchMode,
                      <<>>, <<>>, <<>>, <<>>)
           found == FindOf(store, dto)
       IN  pout' = [filter |-> MongoFilterOf(dto),
                    ids |-> {found[i].id : i \in 1..Len(found)},
                    total |-> CountOf(store, dto)]
    /\ UNCHANGED <<store, seedPc, cache, now, reqs, pin>>

SpecFilter == InitFilter /\ [][ApplyFilter]_vars

(***************************************************************************)
(* SpecSort: the sort and the page window of a listing on the seeded       *)
(* store, as a function of sortBy, sortOrder, page and limit.              *)
(***************************************************************************)
SortBys == { <<>>, <<W_name>>, <<W_city>>, <<W_rating>>, <<W_id>>, << <<"x">> >>, << <<>> >> }
SortOrders == { <<>>, <<W_asc>>, <<W_desc>> }
SortPages == { <<>>, <<2>> }
SortLimits == { <<>>, <<1>>, <<2>> }

InitSort ==
    /\ store = Dataset
    /\ seedPc = 0
    /\ cache = NoCache
    /\ now = 0
    /\ reqs = <<>>
    /\ pin \in [sortBy : SortBys, sortOrder : SortOrders, page : SortPages,
                limit : SortLimits]
    /\ pout = NoValue

ApplySort ==
    /\ pout = NoValue
    /\ pout' = Derived(Dto(<<>>, <<>>, <<>>, pin.page, pin.limit, pin.sortBy, pin.sortOrder))
    /\ UNCHANGED <<store, seedPc, cache, now, reqs, pin>>

SpecSort == InitSort /\ [][ApplySort]_vars

(***************************************************************************)
(* SpecGuard: one HTTP request, from the guards of its route to its        *)
(* response.  pin is the request, pout the response; a facilities request  *)
(* the guard lets through becomes a call of the service in reqs.           *)
(***************************************************************************)
\* a JSON web token: is it three base64 parts, is its signature that of
\* JWT_SECRET, has it expired, and the sub and email of its payload
Jwt(wellFormed, signed, expired, sub, email) ==
    [wellFormed |-> wellFormed, signed |-> signed, expired |-> expired,
     sub |-> sub, email |-> email]

\* ExtractJwt.fromAuthHeaderAsBearerToken(): the token of an Authorization
\* header `<scheme> <token>` whose scheme is bearer, in any case
fromAuthHeaderAsBearerToken(authorization) ==
    IF Has(authorization) /\ Val(authorization).scheme \in {"Bearer", "bearer"}
    THEN <<Val(authorization).token>>
    ELSE <<>>

\* the strategy's verification with secretOrKey and ignoreExpiration: false
verifyJwt(token) ==
    IF token.wellFormed /\ token.signed /\ ~token.expired
    THEN <<[sub |-> token.sub, email |-> token.email]>>
    ELSE <<>>

\* a validate that accepts every verified payload
validate_AnyPayload(payload) == <<[userId |-> payload.sub, email |-> payload.email]>>

\* JwtStrategy.validate: the user, or <<>> for Unauthorized
validate(payload) ==
    IF payload.sub = "" \/ payload.email = ""
    THEN <<>>
    ELSE <<[userId |-> payload.sub, email |-> payload.email]>>

\* JwtAuthGuard.canActivate: the request's user, if the guard accepts it
JwtAuthGuard(authorization) ==
    LET token == fromAuthHeaderAsBearerToken(authorization)
        payload == IF Has(token) THEN verifyJwt(Val(token)) ELSE <<>>
    IN  IF Has(payload) THEN validate(Val(payload)) ELSE <<>>

\* a controller whose guards are on the list handler only
Guarded_ListOnly(route) == route = "facilities"

\* @UseGuards(..., JwtAuthGuard) is on FacilitiesController only
Guarded(route) == route \in {"facilities", "facilityById"}

MIN_PASSWORD_LENGTH == 6

\* a validateCredentials that lets a password of any length through
validateCredentials_Unchecked(password) == TRUE

\* AuthService.validateCredentials: TRUE unless it throws Unauthorized;
\* password is <<>> for undefined, else <<string>>
validateCredentials(password) ==
    ~(~Has(password) \/ Len(Val(password)) = 0
        \/ Len(Val(password)) < MIN_PASSWORD_LENGTH)

\* AuthService.createMockUser, with the value randomUUID() returned
createMockUser(email, uuid) == [id |-> "user-" \o uuid, email |-> email]

\* AuthService.generateJwtToken: a token signed now with JWT_SECRET
generateJwtToken(user) == Jwt(TRUE, TRUE, FALSE, user.id, user.email)

\* AuthService.login: what it returns, or that it raised Unauthorized
login(loginDto, uuid) ==
    IF ~validateCredentials(loginDto.password)
    THEN [raised |-> TRUE, token |-> <<>>, user |-> <<>>]
    ELSE LET user == createMockUser(loginDto.email, uuid)
         IN  [raised |-> FALSE, token |-> <<generateJwtToken(user)>>,
              user |-> <<user>>]

HttpRequest(route, authorization, dto, id, body) ==
    [route |-> route, authorization |-> authorization, dto |-> dto, id |-> id,
     body |-> body]
Authorization(scheme, token) == <<[scheme |-> scheme, token |-> token]>>
GoodJwt == Jwt(TRUE, TRUE, FALSE, "user-1", "a@b.c")
Authorizations ==
    { <<>>,
      Authorization("Bearer", GoodJwt),
      Authorization("bearer", GoodJwt),
      Authorization("", GoodJwt),
      Authorization("Basic", GoodJwt),
      Authorization("Bearer", Jwt(FALSE, FALSE, FALSE, "", "")),
      Authorization("Bearer", Jwt(TRUE, FALSE, FALSE, "user-1", "a@b.c")),
      Authorization("Bearer", Jwt(TRUE, TRUE, TRUE, "user-1", "a@b.c")),
      Authorization("Bearer", Jwt(TRUE, TRUE, FALSE, "", "a@b.c")),
      Authorization("Bearer", Jwt(TRUE, TRUE, FALSE, "user-1", "")) }
NoBody == [email |-> "", password |-> <<>>]
W_empty == <<>>
W_short == <<"s", "h", "o", "r", "t">>
W_passwd == <<"p", "a", "s", "s", "w", "d">>
W_password123 ==
    <<"p", "a", "s", "s", "w", "o", "r", "d", "1", "2", "3">>
W_wrongpassword123 ==
    <<"w", "r", "o", "n", "g", "p", "a", "s", "s", "w", "o", "r", "d", "1", "2", "3">>
Uuids == {"1", "2"}
Emails == {"test@example.com", "hi@ph7.me"}
Passwords ==
    { <<>>, <<W_empty>>, <<W_short>>, <<W_passwd>>, <<W_password123>>,
      <<W_wrongpassword123>> }

InitGuard ==
    /\ store = Dataset
    /\ seedPc = 0
    /\ cache = NoCache
    /\ now = 0
    /\ reqs = <<>>
    /\ pout = NoValue
    /\ \E authorization \in Authorizations :
          \/ \E dto \in Queries : pin = HttpRequest("facilities", authorization, dto, <<>>, NoBody)
          \/ \E id \in Ids : pin = HttpRequest("facilityById", authorization, NoDto, id, NoBody)
          \/ pin = HttpRequest("health", authorization, NoDto, <<>>, NoBody)
          \/ \E email \in Emails, password \in Passwords :
                pin = HttpRequest("login", authorization, NoDto, <<>>,
                                  [email |-> email, password |-> password])

\* the guard throws Unauthorized: the handler is not called
GuardRejects ==
    /\ pout = NoValue
    /\ Guarded(pin.route) /\ ~Has(JwtAuthGuard(pin.authorization))
    /\ pout' = [status |-> "unauthorized"]
    /\ UNCHANGED <<store, seedPc, cache, now, reqs, pin>>

\* the guards of the route, if any, let the request through and the
\* controller calls the service
Dispatch ==
    /\ pout = NoValue
    /\ pin.route # "login"
    /\ Guarded(pin.route) => Has(JwtAuthGuard(pin.authorization))
    /\ pout' = [status |-> "handling"]
    /\ reqs' = CASE pin.route = "facilities" ->
                      <<NewRequest("list", pin.dto, <<>>, ListEntryPc(pin.dto))>>
                 [] pin.route = "facilityById" ->
                      <<NewRequest("byId", NoDto, pin.id, IdEntryPc)>>
                 [] OTHER -> reqs
    /\ UNCHANGED <<store, seedPc, cache, now, pin>>

\* POST /auth/login: no guard; the response is what AuthService.login
\* returns, or 401 when it raises
Login ==
    /\ pout = NoValue
    /\ pin.route = "login"
    /\ \E uuid \in Uuids :
          LET r == login(pin.body, uuid)
          IN  pout' = IF r.raised
                      THEN [status |-> "unauthorized", token |-> <<>>, user |-> <<>>]
                      ELSE [status |-> "ok", token |-> r.token, user |-> r.user]
    /\ UNCHANGED <<store, seedPc, cache, now, reqs, pin>>

\* the handler returns or raises, and the response goes out
Respond ==
    /\ pout # NoValue /\ pout.status = "handling"
    /\ \/ /\ reqs = <<>>
          \* HealthService.check returned, or raised 503
          /\ \E status \in {"ok", "unavailable"} : pout' = [status |-> status]
       \/ /\ reqs # <<>> /\ reqs[1].pc = "done"
          /\ pout' = [status |-> reqs[1].outcome]
    /\ UNCHANGED <<store, seedPc, cache, now, reqs, pin>>

NextGuard ==
    \/ GuardRejects
    \/ Dispatch
    \/ Login
    \/ Respond
    \/ \E i \in 1..Len(reqs) : CacheGet(i)
    \/ \E i \in 1..Len(reqs) : Find(i)
    \/ \E i \in 1..Len(reqs) : Count(i)
    \/ \E i \in 1..Len(reqs) : FindOne(i)
    \/ \E i \in 1..Len(reqs) : CacheSet(i)

SpecGuard == InitGuard /\ [][NextGuard]_vars

(***************************************************************************)
(* SpecHealth: HealthService.check against every state of its two          *)
(* dependencies.  pin is what the connection and the cache manager will    *)
(* answer, pout what check returns or raises.                              *)
(***************************************************************************)
\* readyState: 0 disconnected, 1 connected, 2 connecting, 3 disconnecting;
\* hasDb: connection.db is set; ping, set, del: "ok" or "throws"; get: the
\* value read back ("ok" is the value written), or "throws"
HealthEnv(readyState, hasDb, ping, set, get, del) ==
    [readyState |-> readyState, hasDb |-> hasDb, ping |-> ping, set |-> set,
     get |-> get, del |-> del]

\* a cache check that does not compare the value read back
cacheStatus_NoCompare(env) ==
    IF env.set = "throws" \/ env.get = "throws" \/ env.del = "throws"
    THEN "disconnected"
    ELSE "connected"

\* the inner try of check: set, get, del of '__health_check__'
cacheStatus(env) ==
    IF env.set = "throws" \/ env.get = "throws" \/ env.del = "throws"
    THEN "disconnected"
    ELSE IF env.get = "ok" THEN "connected" ELSE "degraded"

\* HealthService.check: the health it returns, or the 503 it raises
check(env) ==
    LET isDatabaseConnected == env.readyState = 1
        database == IF isDatabaseConnected THEN "connected" ELSE "disconnected"
        status == IF isDatabaseConnected /\ cacheStatus(env) = "connected"
                  THEN "ok" ELSE "degraded"
    IN  IF isDatabaseConnected /\ env.hasDb /\ env.ping = "throws"
        THEN [raised |-> TRUE, http |-> 503, status |-> "error",
              database |-> "unknown", cache |-> "unknown"]
        ELSE IF status # "ok"
        THEN [raised |-> TRUE, http |-> 503, status |-> "error",
              database |-> database, cache |-> cacheStatus(env)]
        ELSE [raised |-> FALSE, http |-> 200, status |-> "ok",
              database |-> database, cache |-> cacheStatus(env)]

InitHealth ==
    /\ store = Dataset
    /\ seedPc = 0
    /\ cache = NoCache
    /\ now = 0
    /\ reqs = <<>>
    /\ pout = NoValue
    /\ \E readyState \in 0..3, hasDb \in BOOLEAN, ping \in {"ok", "throws"},
          set \in {"ok", "throws"}, get \in {"ok", "undefined", "stale", "throws"},
          del \in {"ok", "throws"} :
          \* an open connection has its db
          /\ readyState = 1 => hasDb
          /\ pin = HealthEnv(readyState, hasDb, ping, set, get, del)

ApplyCheck ==
    /\ pout = NoValue
    /\ pout' = check(pin)
    /\ UNCHANGED <<store, seedPc, cache, now, reqs, pin>>

NextHealth == ApplyCheck

SpecHealth == InitHealth /\ [][NextHealth]_vars

\* SpecLive: Spec with every cache and store call of a request eventually
\* answering (with a value or an exception): `await` resumes each request
RequestStep(i) ==
    /\ i \in 1..Len(reqs)
    /\ \/ CacheGetFails(i)
       \/ StoreFails(i)
       \/ CacheSetFails(i)
       \/ CacheGet(i)
       \/ Find(i)
       \/ Count(i)
       \/ FindOne(i)
       \/ CacheSet(i)

LiveQueries == { QUnfiltered, PageOf(QUnfiltered, 4) }
LiveIds == { <<"1">>, <<"9">> }

NextLive ==
    \/ StartList(LiveQueries)
    \/ StartById(LiveIds)
    \/ \E i \in 1..Len(reqs) : CacheGet(i)
    \/ \E i \in 1..Len(reqs) : CacheGetFails(i)
    \/ \E i \in 1..Len(reqs) : Find(i)
    \/ \E i \in 1..Len(reqs) : Count(i)
    \/ \E i \in 1..Len(reqs) : FindOne(i)
    \/ \E i \in 1..Len(reqs) : StoreFails(i)
    \/ \E i \in 1..Len(reqs) : CacheSet(i)
    \/ \E i \in 1..Len(reqs) : CacheSetFails(i)

SpecLive ==
    /\ Init
    /\ [][NextLive]_vars
    /\ \A i \in 1..MaxRequests : WF_vars(RequestStep(i))

\* SpecConc: several identical eligible listings, the descriptor in pin,
\* interleaved against an unchanging catalog while time passes
ConcQueries ==
    { QUnfiltered, PageOf(QUnfiltered, 2), QNamed(<<"c">>),
      [QNamed(<<"c">>) EXCEPT !.limit = <<1>>, !.page = <<2>>] }

InitConc ==
    /\ store = Dataset
    /\ seedPc = 0
    /\ cache = NoCache
    /\ now = 0
    /\ reqs = <<>>
    /\ pout = NoValue
    /\ pin \in ConcQueries

StartSame == StartList({pin})

NextConc ==
    \/ StartSame
    \/ \E i \in 1..Len(reqs) : CacheGet(i)
    \/ \E i \in 1..Len(reqs) : Find(i)
    \/ \E i \in 1..Len(reqs) : Count(i)
    \/ \E i \in 1..Len(reqs) : CacheSet(i)
    \/ Tick

SpecConc == InitConc /\ [][NextConc]_vars

(***************************************************************************)
(* SpecWindow: the find and the count of one listing on the seeded store,  *)
(* as a function of the filter, the sort, the page and the limit.          *)
(***************************************************************************)
WindowNames == { <<>>, << <<"b">> >> }
WindowAmenities == { <<>>, << << <<"g">> >> >> }
WindowSortBys == { <<>>, <<W_name>>, <<W_city>>, <<W_id>> }
WindowSortOrders == { <<>>, <<W_asc>>, <<W_desc>> }
WindowPages == { <<>>, <<2>>, <<3>> }
WindowLimits == { <<>>, <<1>>, <<2>> }

InitWindow ==
    /\ store = Dataset
    /\ seedPc = 0
    /\ cache = NoCache
    /\ now = 0
    /\ reqs = <<>>
    /\ pin \in [name : WindowNames, amenities : WindowAmenities,
                sortBy : WindowSortBys, sortOrder : WindowSortOrders,
                page : WindowPages, limit : WindowLimits]
    /\ pout = NoValue

ApplyWindow ==
    /\ pout = NoValue
    /\ pout' = Derived(Dto(pin.name, pin.amenities, <<>>, pin.page, pin.limit,
                           pin.sortBy, pin.sortOrder))
    /\ UNCHANGED <<store, seedPc, cache, now, reqs, pin>>

NextWindow == ApplyWindow

SpecWindow == InitWindow /\ [][NextWindow]_vars

(***************************************************************************)
(* SpecReseed: seed() run again and again, one at a time, on a collection  *)
(* that holds anything, from a file of any length.  pin is the content of  *)
(* the file; a record is its position in the file.                         *)
(***************************************************************************)
FileOf(n) == [i \in 1..n |-> i]

\* file lengths around the multiples of the batch size
FileSizes ==
    {n \in 0..(3 * SEED_BATCH_SIZE + 1) :
        \/ n % SEED_BATCH_SIZE <= 2
        \/ n % SEED_BATCH_SIZE >= SEED_BATCH_SIZE - 2}

InitReseed ==
    /\ seedPc = 0
    /\ cache = NoCache
    /\ now = 0
    /\ reqs = <<>>
    /\ pout = NoValue
    /\ \E n \in FileSizes :
          /\ pin = FileOf(n)
          \* record 0 is in no file: the collection is not the dataset
          /\ store \in {<<0>>, <<0>> \o FileOf(n), FileOf(n) \o <<0>>,
                        FileOf(n) \o <<0>> \o FileOf(n), <<0, 0>>}

SeedFromFile == SeedInsertBatchOf(pin)

NextReseed ==
    \/ SeedClear
    \/ SeedFromFile

SpecReseed == InitReseed /\ [][NextReseed]_vars

\* SpecStale: listings and a lookup while the collection is re-seeded and
\* time passes
StaleQueries == { QNamed(<<"c">>) }
StaleIds == { <<"1">> }

NextStale ==
    \/ StartList(StaleQueries)
    \/ StartById(StaleIds)
    \/ \E i \in 1..Len(reqs) : CacheGet(i)
    \/ \E i \in 1..Len(reqs) : Find(i)
    \/ \E i \in 1..Len(reqs) : Count(i)
    \/ \E i \in 1..Len(reqs) : FindOne(i)
    \/ \E i \in 1..Len(reqs) : CacheSet(i)
    \/ SeedClear
    \/ SeedInsertBatch
    \/ Tick

SpecStale == Init /\ [][NextStale]_vars

(***************************************************************************)
(* SpecOld: the cache keys of one listing in the revision of getFacilities *)
(* that logs its cache hits.  pin is the descriptor, pout the eligibility  *)
(* and the keys of the cache read and of the cache write.                  *)
(***************************************************************************)
\* generateCacheKey of that revision: the values are serialised as given
generateCacheKeyOld(prefix, params) ==
    LET keys == SortStrings([i \in 1..Len(params) |-> params[i].key])
        sortedParams ==
            Join([i \in 1..Len(keys) |->
                    keys[i] \o <<":">> \o ToStr(ParamOf(params, keys[i]))],
                 <<"|">>)
    IN  prefix \o <<":">> \o sortedParams

\* `const limit = Math.min(requestedLimit, this.maxPageSize)`
LimitOfOld(dto) == Min2(RequestedLimit(dto), MAX_PAGE_SIZE)

\* the object literal of the key of the cache read
readParamsOld(dto) ==
    << [key |-> W_name, value |-> JsOptStr(dto.name)],
       [key |-> W_amenities, value |-> JsOptArr(dto.amenities)],
       [key |-> W_amenityMatchMode, value |-> JsStr(ModeOf(dto))],
       [key |-> W_page, value |-> JsNum(PageDefault(dto))],
       [key |-> W_limit, value |-> JsNum(LimitOfOld(dto))],
       [key |-> W_sortBy, value |-> JsStr(SortByOf(dto))],
       [key |-> W_sortOrder, value |-> JsStr(SortOrderOf(dto))] >>

\* the object literal of the key of the cache write: no amenityMatchMode
writeParamsOld(dto) ==
    << [key |-> W_name, value |-> JsOptStr(dto.name)],
       [key |-> W_amenities, value |-> JsOptArr(dto.amenities)],
       [key |-> W_page, value |-> JsNum(PageDefault(dto))],
       [key |-> W_limit, value |-> JsNum(LimitOfOld(dto))],
       [key |-> W_sortBy, value |-> JsStr(SortByOf(dto))],
       [key |-> W_sortOrder, value |-> JsStr(SortOrderOf(dto))] >>

OldPages == { <<>>, <<1>>, <<2>>, <<3>> }
OldLimits == { <<>>, <<DEFAULT_PAGE_SIZE>>, <<MAX_PAGE_SIZE + 1>> }

InitOld ==
    /\ store = Dataset
    /\ seedPc = 0
    /\ cache = NoCache
    /\ now = 0
    /\ reqs = <<>>
    /\ pin \in [name : KeyNames, amenities : KeyAmenities, amenityMatchMode : FilterModes,
                page : OldPages, limit : OldLimits,
                sortBy : KeySortBys, sortOrder : KeySortOrders]
    /\ pout = NoValue

ApplyOld ==
    /\ pout = NoValue
    /\ pout' = [shouldCache |-> shouldCacheQueryOld(pin.name, pin.amenities, PageDefault(pin)),
                readKey |-> generateCacheKeyOld(W_facilities, readParamsOld(pin)),
                writeKey |-> generateCacheKeyOld(W_facilities, writeParamsOld(pin))]
    /\ UNCHANGED <<store, seedPc, cache, now, reqs, pin>>

NextOld == ApplyOld

SpecOld == InitOld /\ [][NextOld]_vars

(***************************************************************************)
(* The serverless entry points: the one with the module-level expressApp   *)
(* and cachedApp, and src/lambda.ts (cachedServer).  One Node process and  *)
(* several invocations; an invocation gives up the event loop at each      *)
(* await, so another one may run its synchronous part in between.  The     *)
(* process state is kept in pout, the entry point in pin.                  *)
(***************************************************************************)
\* how many handler invocations one process receives
MaxInvocations == 3
Invocations == 1..MaxInvocations
EntryPoints == { "vercel", "lambda" }

InitBoot ==
    /\ store = Dataset
    /\ seedPc = 0
    /\ cache = NoCache
    /\ now = 0
    /\ reqs = <<>>
    /\ pin \in [entry : EntryPoints]
    /\ pout = [cached  |-> 0,      \* cachedApp / cachedServer; 0 is undefined
               creates |-> 0,      \* calls of NestFactory.create
               inits   |-> 0,      \* calls of app.init
               mounted |-> {},     \* Nest applications initialised on expressApp
               pc      |-> [i \in Invocations |-> "idle"],
               app     |-> [i \in Invocations |-> 0],
               served  |-> [i \in Invocations |-> {}]]

\* the handler is entered and runs up to its first await: the test of the
\* cached instance and, when there is none, the call of NestFactory.create
Invoke(i) ==
    /\ pout.pc[i] = "idle"
    /\ pout' =
         IF pout.cached # 0
         THEN IF pin.entry = "lambda"
              THEN [pout EXCEPT !.pc[i] = "done", !.served[i] = { pout.cached }]
              ELSE [pout EXCEPT !.pc[i] = "serve"]
         ELSE [pout EXCEPT !.creates = @ + 1, !.app[i] = pout.creates + 1,
                           !.pc[i] = "creating"]
    /\ UNCHANGED <<store, seedPc, cache, now, reqs, pin>>

\* NestFactory.create resolves: the application is configured and app.init
\* is called
Create(i) ==
    /\ pout.pc[i] = "creating"
    /\ pout' = [pout EXCEPT !.inits = @ + 1, !.pc[i] = "initing"]
    /\ UNCHANGED <<store, seedPc, cache, now, reqs, pin>>

\* app.init resolves; the first entry point assigns cachedApp here, src/lambda.ts
\* returns to the handler
AppInit(i) ==
    /\ pout.pc[i] = "initing"
    /\ pout' =
         IF pin.entry = "vercel"
         THEN [pout EXCEPT !.cached = pout.app[i], !.mounted = @ \cup { pout.app[i] },
                           !.pc[i] = "serve"]
         ELSE [pout EXCEPT !.pc[i] = "assign"]
    /\ UNCHANGED <<store, seedPc, cache, now, reqs, pin>>

\* NestFactory.create or app.init rejects: the invocation fails and the
\* cached instance is left as it was
BootstrapFails(i) ==
    /\ pout.pc[i] \in { "creating", "initing" }
    /\ pout' = [pout EXCEPT !.pc[i] = "failed"]
    /\ UNCHANGED <<store, seedPc, cache, now, reqs, pin>>

\* the request is handed over: src/lambda.ts assigns cachedServer and calls
\* it, the other entry point calls expressApp with whatever is mounted on it
Serve(i) ==
    /\ pout.pc[i] \in { "assign", "serve" }
    /\ pout' =
         IF pout.pc[i] = "assign"
         THEN [pout EXCEPT !.cached = pout.app[i], !.served[i] = { pout.app[i] },
                           !.pc[i] = "done"]
         ELSE [pout EXCEPT !.served[i] = pout.mounted, !.pc[i] = "done"]
    /\ UNCHANGED <<store, seedPc, cache, now, reqs, pin>>

NextBoot ==
    \E i \in Invocations :
        \/ Invoke(i)
        \/ Create(i)
        \/ AppInit(i)
        \/ BootstrapFails(i)
        \/ Serve(i)

SpecBoot == InitBoot /\ [][NextBoot]_vars

(***************************************************************************)
(* Properties.                                                             *)
(***************************************************************************)
Requests == 1..Len(reqs)

\* C1: a request whose cache read raised does not fail: it goes on as a
\* miss and its caller gets the result computed from the store.
C1_GetFaultIsAMiss ==
    \A i \in Requests :
        reqs[i].fault = "get" =>
            /\ reqs[i].outcome # "cache_failure"
            /\ reqs[i].pc = "done" /\ reqs[i].outcome = "ok" => reqs[i].source = "store"

\* C2: a request whose cache write raised after a successful store query
\* does not fail: the write is dropped and the caller gets the store's result.
C2_SetFaultIsDropped ==
    \A i \in Requests :
        reqs[i].fault = "set" =>
            /\ reqs[i].outcome = "ok"
            /\ reqs[i].source = "store"

\* what a request gets from the store when there is no cache at all
NoCacheAnswer(r, docs) ==
    IF r.op = "list" THEN StoreListing(docs, r.dto) ELSE Val(StoreFindOne(docs, r.id))

\* C3: with an unchanging catalog, every response produced with the cache
\* in place equals the response the store alone gives to the same request.
C3_CacheIsTransparent ==
    \A i \in DoneRequests :
        reqs[i].outcome = "ok" => reqs[i].result = NoCacheAnswer(reqs[i], Dataset)


\* the step in which request i gets the answer of its cache read
GetAnswers(i) ==
    /\ i \in Requests
    /\ reqs[i].pc = "check"
    /\ reqs'[i].nGet = reqs[i].nGet + 1
    /\ reqs'[i].fault = "none"

\* the step in which the cache write of request i answers
SetAnswers(i) ==
    /\ i \in Requests
    /\ reqs[i].pc = "write"
    /\ reqs'[i].nSet = reqs[i].nSet + 1
    /\ reqs'[i].fault = "none"

C4_Served ==
    \A i \in Requests :
        reqs[i].op = "list" /\ reqs[i].source = "cache" =>
            /\ reqs[i].pc = "done" /\ reqs[i].outcome = "ok"
            /\ reqs[i].nFind = 0 /\ reqs[i].nCount = 0

C4_HitStep ==
    \A i \in Requests :
        GetAnswers(i) /\ reqs[i].op = "list" /\ Has(CacheLookup(ListReadKey(reqs[i].dto))) =>
            /\ reqs'[i].pc = "done" /\ reqs'[i].outcome = "ok"
            /\ reqs'[i].result = cache[ListReadKey(reqs[i].dto)].value
            /\ reqs'[i].nFind = 0 /\ reqs'[i].nCount = 0

\* C4: on a cache hit of an eligible listing request, getFacilities returns
\* the cached PaginatedResult as it is and issues neither find nor count.
C4_HitReturnsCached == []C4_Served /\ [][C4_HitStep]_vars

\* a listing was answered from the cache
C4_Witness ==
    \E i \in Requests :
        reqs[i].op = "list" /\ reqs[i].pc = "done" /\ reqs[i].source = "cache"

Wrote(i) == reqs[i].nSet = 1 /\ reqs[i].fault = "none"
IsFiltered(dto) ==
    \/ Has(dto.name) /\ Len(Val(dto.name)) > 0
    \/ Has(dto.amenities) /\ Len(Val(dto.amenities)) > 0
WroteUnfilteredList(i) == Wrote(i) /\ reqs[i].op = "list" /\ ~IsFiltered(reqs[i].dto)
WroteFilteredList(i) == Wrote(i) /\ reqs[i].op = "list" /\ IsFiltered(reqs[i].dto)
WroteItem(i) == Wrote(i) /\ reqs[i].op = "byId"
TtlOf(i) == Val(reqs[i].setTtl)

\* C8, as the policy states it: of the TTLs passed to the cache, that of an
\* unfiltered list is longer than that of a single item, which is longer
\* than that of a filtered list.
C8_TiersAsStated ==
    \A i, j \in Requests :
        /\ WroteUnfilteredList(i) /\ WroteItem(j) => TtlOf(i) > TtlOf(j)
        /\ WroteItem(i) /\ WroteFilteredList(j) => TtlOf(i) > TtlOf(j)

\* the key of a single item, spelled out: facility:id:<id>
ItemKey(id) == W_facility \o <<":">> \o W_id \o <<":">> \o id

C9_Lookups ==
    \A i \in Requests :
        reqs[i].op = "byId" =>
            /\ reqs[i].pc # "check" => reqs[i].nGet = 1
            /\ reqs[i].source = "cache" =>
                   reqs[i].pc = "done" /\ reqs[i].outcome = "ok" /\ reqs[i].nFindOne = 0
            /\ reqs[i].pc = "done" /\ reqs[i].outcome = "ok" /\ reqs[i].source = "store" =>
                   /\ reqs[i].nSet = 1
                   /\ reqs[i].setKey = <<ItemKey(reqs[i].id)>>
                   /\ reqs[i].setTtl = <<3600>>

C9_Steps ==
    \A i \in Requests :
        reqs[i].op = "byId" =>
            /\ GetAnswers(i) /\ Has(CacheLookup(ItemKey(reqs[i].id))) =>
                   /\ reqs'[i].pc = "done" /\ reqs'[i].outcome = "ok"
                   /\ reqs'[i].result = cache[ItemKey(reqs[i].id)].value
            /\ GetAnswers(i) /\ ~Has(CacheLookup(ItemKey(reqs[i].id))) =>
                   reqs'[i].pc = "query"
            /\ SetAnswers(i) =>
                   /\ reqs[i].result = Val(reqs[i].one[1])
                   /\ reqs'[i].pc = "done" /\ reqs'[i].outcome = "ok"
                   /\ reqs'[i].result = reqs[i].result
                   /\ ItemKey(reqs[i].id) \in DOMAIN cache'
                   /\ cache'[ItemKey(reqs[i].id)].value = reqs[i].result
                   /\ cache'[ItemKey(reqs[i].id)].ttl = 3600

\* C9: getFacilityById always reads the cache first, under the key of the
\* id; a hit is returned without findOne; on a miss with the record present
\* the record is written with the single-item TTL and then returned.
C9_ItemReadThrough == []C9_Lookups /\ [][C9_Steps]_vars

\* one lookup was answered from the store and written, another from the cache
C9_Witness ==
    \E i, j \in Requests :
        /\ reqs[i].op = "byId" /\ reqs[i].pc = "done" /\ reqs[i].source = "store"
        /\ reqs[i].nSet = 1 /\ reqs[i].outcome = "ok"
        /\ reqs[j].op = "byId" /\ reqs[j].pc = "done" /\ reqs[j].source = "cache"


\* eligibility as the policy states it: an unfiltered query through page 3,
\* a filtered one through page 2
Eligible(dto) ==
    \/ ~IsFiltered(dto) /\ SafePage(dto) <= 3
    \/ IsFiltered(dto) /\ SafePage(dto) <= 2

C5_Written ==
    \A j \in Requests :
        reqs[j].op = "list" =>
            /\ reqs[j].pc = "done" /\ reqs[j].outcome = "ok" /\ reqs[j].source = "store"
               /\ Eligible(reqs[j].dto) =>
                   /\ reqs[j].nSet = 1
                   /\ reqs[j].setKey = <<ListReadKey(reqs[j].dto)>>
                   /\ reqs[j].setTtl = <<IF IsFiltered(reqs[j].dto) THEN 600 ELSE 1800>>
            /\ reqs[j].nGet = 1 /\ reqs[j].fault = "none" =>
                   \A i \in reqs[j].fresh :
                       reqs[i].op = "list" /\ reqs[i].dto = reqs[j].dto =>
                           reqs[j].source = "cache"

C5_WriteStep ==
    \A i \in Requests :
        SetAnswers(i) /\ reqs[i].op = "list" =>
            /\ ListReadKey(reqs[i].dto) \in DOMAIN cache'
            /\ cache'[ListReadKey(reqs[i].dto)] =
                   [value |-> reqs[i].result,
                    ttl |-> IF IsFiltered(reqs[i].dto) THEN 600 ELSE 1800,
                    expiresAt |-> Seconds + (IF IsFiltered(reqs[i].dto) THEN 600 ELSE 1800)]
            /\ reqs'[i].pc = "done" /\ reqs'[i].outcome = "ok"
            /\ reqs'[i].result = reqs[i].result

C6_DeepPagesNotCached ==
    /\ \A i \in Requests :
          reqs[i].op = "list" /\ ~Eligible(reqs[i].dto) =>
              reqs[i].nGet = 0 /\ reqs[i].nSet = 0 /\ reqs[i].source # "cache"
    /\ \A k \in DOMAIN cache :
          /\ \E i \in Requests : reqs[i].setKey = <<k>> /\ Eligible(reqs[i].dto)
          /\ cache[k].value.meta.page <= 3

\* deep pages were answered from the store while shallow ones were cached
C6_Witness ==
    /\ \E i \in Requests :
          /\ reqs[i].pc = "done" /\ reqs[i].outcome = "ok"
          /\ IsFiltered(reqs[i].dto) /\ SafePage(reqs[i].dto) = 3
    /\ DOMAIN cache # {}

\* C7: shouldCacheQuery is true exactly when the query is unfiltered and
\* page <= 3, or has a non-empty name or amenity list and page <= 2 (in
\* both revisions of the service).
C7_EligibilityBoundary ==
    pout # NoValue =>
        LET filtered ==
                \/ Has(pin.name) /\ Len(Val(pin.name)) > 0
                \/ Has(pin.amenities) /\ Len(Val(pin.amenities)) > 0
            stated == (~filtered /\ pin.page <= 3) \/ (filtered /\ pin.page <= 2)
        IN  pout.should = stated /\ pout.shouldOld = stated

\* the policy was applied to a filtered query at page 3: not eligible
C7_Witness ==
    /\ pout # NoValue
    /\ Has(pin.name) /\ Val(pin.name) # <<>> /\ pin.page = 3
    /\ pout.should = FALSE

\* C10, as stated: a lookup during which the store never held a record with
\* the id raises NotFound.
C10_AbsentIsNotFound ==
    \A i \in DoneRequests :
        reqs[i].op = "byId" /\ ~reqs[i].present => reqs[i].outcome = "not_found"

C10_Absent ==
    \A i \in Requests :
        reqs[i].op = "byId" =>
            /\ Has(reqs[i].one) /\ ~Has(Val(reqs[i].one)) =>
                   /\ reqs[i].pc = "done" /\ reqs[i].outcome = "not_found"
                   /\ reqs[i].result = NoValue /\ reqs[i].nSet = 0
            /\ reqs[i].pc = "done" /\ reqs[i].outcome = "ok" /\ ~reqs[i].present =>
                   reqs[i].source = "cache"

C10_FindOneStep ==
    \A i \in Requests :
        /\ reqs[i].op = "byId" /\ reqs[i].pc = "query"
        /\ reqs'[i].nFindOne = reqs[i].nFindOne + 1
        /\ ~Holds(store, reqs[i].id)
        => reqs'[i].pc = "done" /\ reqs'[i].outcome = "not_found"

\* C10, amended: a lookup that misses the cache and whose findOne finds no
\* record with the id raises NotFound, returns no value and writes nothing;
\* a record the store does not hold is returned only from the cache.
C10_NotFoundOnStoreMiss == []C10_Absent /\ [][C10_FindOneStep]_vars

\* a record of the dataset was looked up while the collection was cleared
C10_Witness ==
    \E i \in Requests :
        reqs[i].op = "byId" /\ reqs[i].id = <<"1">> /\ reqs[i].outcome = "not_found"

\* C11: a failure of find, count or findOne ends the request with a failure
\* that is not NotFound, no result and no cache write; the request stays
\* failed (no retry) and each store operation is answered at most once.
C11_Failed ==
    \A i \in Requests :
        /\ reqs[i].nFind <= 1 /\ reqs[i].nCount <= 1 /\ reqs[i].nFindOne <= 1
        /\ reqs[i].fault = "store" =>
              /\ reqs[i].pc = "done"
              /\ reqs[i].outcome = "store_failure"
              /\ reqs[i].result = NoValue
              /\ reqs[i].nSet = 0

C11_NoRetry ==
    \A i \in Requests : reqs[i].fault = "store" => reqs'[i] = reqs[i]

C11_StoreFailureIsFatal == []C11_Failed /\ [][C11_NoRetry]_vars

\* a listing failed after its find had answered, and a lookup failed in
\* findOne
C11_Witness ==
    /\ \E i \in Requests :
          reqs[i].op = "list" /\ reqs[i].fault = "store" /\ reqs[i].nFind = 1
    /\ \E i \in Requests : reqs[i].op = "byId" /\ reqs[i].fault = "store"

\* C12: two listing requests whose normalised descriptors differ never get
\* the same cache key.
C12_KeyIsInjective ==
    pout # NoValue /\ pout.a.normalised # pout.b.normalised => pout.a.key # pout.b.key

\* C13: a descriptor and the same descriptor with its amenities in another
\* order get the same cache key, the key built for the read equals the key
\* built again for the write, and the caller's amenities list is left as
\* it was.
C13_KeyIgnoresAmenityOrder ==
    pout # NoValue =>
        /\ pout.a.key = pout.a.writeKey
        /\ pout.a.amenitiesAfter = JsOptArr(pout.dto.amenities)
        /\ pout.other = Reordered(pout.dto) => pout.a.key = pout.b.key

\* the key was built for [p,g] and for [g,p]
C13_Witness ==
    /\ pout # NoValue
    /\ pout.dto.amenities = << << <<"p">>, <<"g">> >> >>
    /\ pout.other.amenities = << << <<"g">>, <<"p">> >> >>
    /\ pout.other = Reordered(pout.dto)
    /\ pout.a.key = pout.b.key

\* C14: a descriptor that omits page, limit, sortBy, sortOrder or
\* amenityMatchMode gets the same store query, the same response and the
\* same cache key as the descriptor that sets them to their defaults.
C14_DefaultsAreExplicit ==
    pout # NoValue /\ pout.other = WithDefaults(pout.dto) =>
        /\ pout.a.key = pout.b.key
        /\ pout.a.filter = pout.b.filter /\ pout.a.sort = pout.b.sort
        /\ pout.a.skip = pout.b.skip /\ pout.a.limit = pout.b.limit
        /\ pout.a.shouldCache = pout.b.shouldCache
        /\ pout.a.listing = pout.b.listing

\* a descriptor with nothing but a name was compared with the one that
\* spells out page 1, limit 20, sort by name ascending and mode all
C14_Witness ==
    /\ pout # NoValue
    /\ pout.dto = QNamed(<<"c">>)
    /\ pout.other = Dto(<< <<"c">> >>, <<>>, <<W_all>>, <<1>>, <<DEFAULT_PAGE_SIZE>>,
                        <<W_name>>, <<W_asc>>)
    /\ pout.a.listing.meta.total = 3

\* meta of a PaginatedResult: totalPages is the least n >= 1 with
\* n * limit >= total, hasNextPage is page < totalPages, hasPreviousPage is
\* page > 1
MetaIsConsistent(m) ==
    /\ m.totalPages >= 1
    /\ m.totalPages * m.limit >= m.total
    /\ m.totalPages > 1 => (m.totalPages - 1) * m.limit < m.total
    /\ m.total = 0 => m.totalPages = 1
    /\ m.hasNextPage = (m.page < m.totalPages)
    /\ m.hasPreviousPage = (m.page > 1)

\* C15: every PaginatedResult computed from the store has
\* totalPages = max(1, ceil(total/limit)), hasNextPage = (page < totalPages)
\* and hasPreviousPage = (page > 1); totalPages is 1 when total is 0.
C15_MetaOfResult ==
    pout # NoValue =>
        MetaIsConsistent(pout.a.listing.meta) /\ MetaIsConsistent(pout.b.listing.meta)

\* a result with no match and a result of three pages were computed
C15_Witness ==
    /\ pout # NoValue
    /\ pout.a.listing.meta.total = 0 /\ pout.a.listing.meta.totalPages = 1
    /\ pout.b.listing.meta.total = 3 /\ pout.b.listing.meta.totalPages = 3
    /\ pout.b.listing.meta.hasNextPage

\* the page and the limit a derived request uses: at the store (skip,
\* limit), in the cache key and in the response meta
ClampedEverywhere(d) ==
    /\ 1 <= d.limit /\ d.limit <= MAX_PAGE_SIZE
    /\ d.skip >= 0 /\ d.skip % d.limit = 0
    /\ 1 <= d.keyLimit /\ d.keyLimit <= MAX_PAGE_SIZE /\ d.keyPage >= 1
    /\ 1 <= d.listing.meta.limit /\ d.listing.meta.limit <= MAX_PAGE_SIZE
    /\ d.listing.meta.page >= 1
    /\ d.keyLimit = d.limit /\ d.listing.meta.limit = d.limit
    /\ d.keyPage = d.listing.meta.page /\ d.skip = (d.keyPage - 1) * d.limit

\* C16: whatever page and limit are requested, zero and negative values
\* included, the store query, the cache key and the response meta use a
\* limit in 1..maxPageSize and a page >= 1.
C16_PageAndLimitClamped ==
    pout # NoValue => ClampedEverywhere(pout.a) /\ ClampedEverywhere(pout.b)

\* page -1 with limit 101 was requested, as given and with its other
\* fields set to their defaults
C16_Witness ==
    /\ pout # NoValue
    /\ pout.dto.page = <<0 - 1>> /\ pout.dto.limit = <<MAX_PAGE_SIZE + 1>>
    /\ pout.a.limit = MAX_PAGE_SIZE /\ pout.a.keyPage = 1
    /\ pout.other.page = <<0 - 1>> /\ pout.other.amenityMatchMode = <<W_all>>

\* labels and names compared case-insensitively
LowerStr(s) == [i \in 1..Len(s) |-> Lower(s[i])]
HasAmenity(doc, label) ==
    \E j \in 1..Len(doc.facilities) : LowerStr(doc.facilities[j]) = LowerStr(label)
IdsWhere(P(_)) == {store[i].id : i \in {j \in 1..Len(store) : P(store[j])}}
FilterIsAmenitiesOnly == pout # NoValue /\ ~NameTruthy(pin.name) /\ AmenitiesLength(pin.amenities)
RequestedMode == OrDefault(pin.amenityMatchMode, W_all)

\* C17: for a non-empty amenity list, mode ALL finds exactly the facilities
\* that have every listed amenity and mode ANY exactly those that have at
\* least one, labels compared case-insensitively.
C17_AllAndAny ==
    FilterIsAmenitiesOnly =>
        LET labels == Val(pin.amenities)
            hasAll(doc) == \A k \in 1..Len(labels) : HasAmenity(doc, labels[k])
            hasAny(doc) == \E k \in 1..Len(labels) : HasAmenity(doc, labels[k])
        IN  /\ RequestedMode = W_all => pout.ids = IdsWhere(hasAll)
            /\ RequestedMode = W_any => pout.ids = IdsWhere(hasAny)

\* C18: in mode EXACT the facilities found are exactly those whose set of
\* amenities, compared case-insensitively, equals the set of the requested
\* labels.
C18_Exact ==
    FilterIsAmenitiesOnly /\ RequestedMode = W_exact =>
        LET labels == Val(pin.amenities)
            requested == {LowerStr(labels[k]) : k \in 1..Len(labels)}
            owned(doc) == {LowerStr(doc.facilities[j]) : j \in 1..Len(doc.facilities)}
            same(doc) == owned(doc) = requested
        IN  pout.ids = IdsWhere(same)

InAllowList(f) == \E i \in 1..Len(ALLOWED_SORT_FIELDS) : ALLOWED_SORT_FIELDS[i] = f

ContainsIgnoreCase(s, q) ==
    \E i \in 0..Len(s) :
        i + Len(q) <= Len(s) /\ LowerStr(SubSeq(s, i + 1, i + Len(q))) = LowerStr(q)

\* C20: the name filter finds exactly the facilities whose name contains
\* the query string as a literal substring, case-insensitively, whatever
\* regex metacharacters the string contains.
C20_NameIsLiteralSubstring ==
    pout # NoValue /\ ~AmenitiesLength(pin.amenities) =>
        LET q == OrDefault(pin.name, <<>>)
            named(doc) == ContainsIgnoreCase(doc.name, q)
        IN  pout.ids = IdsWhere(named) /\ pout.total = Cardinality(IdsWhere(named))

\* '.' found only the facility with a dot in its name
C20_Witness ==
    /\ pout # NoValue /\ ~Has(pin.amenities)
    /\ pin.name = << <<".">> >> /\ pout.ids = { <<"2">> }

\* C21: a listing that matches no facility, or asks for a page beyond the
\* last one, returns normally with data = [] and hasNextPage = false (and
\* total = 0 when nothing matches); it raises nothing.
C21_EmptyIsNotAnError ==
    \A i \in Requests :
        reqs[i].op = "list" =>
            /\ reqs[i].outcome \in {"pending", "ok"}
            /\ reqs[i].pc = "done" =>
                  LET res == reqs[i].result
                  IN  /\ res.meta.total = 0 => res.data = <<>> /\ ~res.meta.hasNextPage
                      /\ res.meta.page > res.meta.totalPages =>
                            res.data = <<>> /\ ~res.meta.hasNextPage
                      /\ res.data = <<>> =>
                            res.meta.total = 0 \/ res.meta.page > res.meta.totalPages

\* a listing that matches nothing and a listing beyond the last page have
\* both returned
C21_Witness ==
    /\ \E i \in DoneRequests :
          reqs[i].outcome = "ok" /\ reqs[i].result.meta.total = 0
    /\ \E i \in DoneRequests :
          /\ reqs[i].outcome = "ok" /\ reqs[i].result.meta.total = Len(Dataset)
          /\ reqs[i].result.meta.page > reqs[i].result.meta.totalPages
          /\ reqs[i].result.data = <<>>

\* what the guard is documented to demand of the Authorization header: a
\* Bearer token that is well formed, signed by the service, not expired,
\* and names a caller
Authenticated(authorization) ==
    /\ Has(authorization)
    /\ Val(authorization).scheme \in {"Bearer", "bearer"}
    /\ Val(authorization).token.wellFormed
    /\ Val(authorization).token.signed
    /\ ~Val(authorization).token.expired
    /\ Val(authorization).token.sub # ""
    /\ Val(authorization).token.email # ""

MissingMalformedOrNotBearer(authorization) ==
    \/ ~Has(authorization)
    \/ Val(authorization).scheme \notin {"Bearer", "bearer"}
    \/ ~Val(authorization).token.wellFormed

TooShort(password) == ~Has(password) \/ Len(Val(password)) < 6

AccountPassword == <<W_password123>>

\* C24: a login whose password has a valid length but is not the account's
\* password is answered 401 Unauthorized and yields no token.
C24_WrongPasswordRejected ==
    (/\ pin.route = "login"
     /\ pout # NoValue
     /\ ~TooShort(pin.body.password)
     /\ pin.body.password # AccountPassword) =>
        pout.status = "unauthorized" /\ ~Has(pout.token)

CallsOf(r) ==
    /\ r.nGet <= 1 /\ r.nSet <= 1
    /\ r.nFind <= 1 /\ r.nCount <= 1 /\ r.nFindOne <= 1
    /\ r.op = "list" => r.nFindOne = 0
    /\ r.op = "byId" => r.nFind = 0 /\ r.nCount = 0
    /\ (r.op = "list" /\ (r.nSet = 1 \/ r.pc = "write")) =>
          /\ r.nFind = 1 /\ r.nCount = 1
          /\ Has(r.find) /\ Has(r.count) /\ r.fault \in {"none", "set"}
    /\ (r.op = "byId" /\ (r.nSet = 1 \/ r.pc = "write")) =>
          r.nFindOne = 1 /\ Has(r.one) /\ Has(Val(r.one))
    /\ r.source = "cache" =>
          r.pc = "done" /\ r.nFind + r.nCount + r.nFindOne + r.nSet = 0

\* CACHE_CHECK -> done | EXECUTE, EXECUTE -> CACHE_WRITE | done,
\* CACHE_WRITE -> done
StateOrder(from, to) ==
    \/ from = to /\ from = "query"
    \/ from = "check" /\ to \in {"query", "done"}
    \/ from = "query" /\ to \in {"write", "done"}
    \/ from = "write" /\ to = "done"

\* C26: every request goes CACHE_CHECK -> return on a hit, or CACHE_CHECK ->
\* EXECUTE -> CACHE_WRITE (if eligible) -> return, and terminates when every
\* call answers: it makes at most one cache get, one find and one count (or
\* one findOne) and one cache set, and the set comes after find and count.
C26_RequestTerminates ==
    /\ [](\A i \in 1..Len(reqs) : CallsOf(reqs[i]))
    /\ [][\A i \in 1..Len(reqs) :
            reqs'[i] # reqs[i] => StateOrder(reqs[i].pc, reqs'[i].pc)]_vars
    /\ \A i \in 1..MaxRequests :
          (Len(reqs) >= i) ~> (Len(reqs) >= i /\ reqs[i].pc = "done")

\* C26 witness: a listing that missed, got find and count answered, wrote
\* the cache once and returned
C26_Witness ==
    \E i \in 1..Len(reqs) :
        /\ reqs[i].op = "list" /\ reqs[i].pc = "done" /\ reqs[i].outcome = "ok"
        /\ reqs[i].nGet = 1 /\ reqs[i].nFind = 1 /\ reqs[i].nCount = 1
        /\ reqs[i].nSet = 1

\* C27: identical eligible requests that interleave against an unchanging
\* catalog all return the same result, every write to their key carries
\* that value, and the entry left in the cache is that value whichever
\* write came last.
C27_IdenticalMissesAgree ==
    /\ \A i, j \in 1..Len(reqs) :
          (reqs[i].outcome = "ok" /\ reqs[j].outcome = "ok") =>
              reqs[i].result = reqs[j].result
    /\ \A i \in 1..Len(reqs) :
          (reqs[i].pc = "write" \/ reqs[i].nSet = 1) =>
              /\ reqs[i].result = StoreListing(store, pin)
              /\ WriteKey(reqs[i]) = ListWriteKey(pin)
    /\ ListWriteKey(pin) \in DOMAIN cache =>
          cache[ListWriteKey(pin)].value = StoreListing(store, pin)

\* C27 witness: two identical requests both missed, both queried the store
\* and both wrote the entry, which holds their common result
C27_Witness ==
    /\ Len(reqs) >= 2
    /\ \A i \in 1..2 :
          /\ reqs[i].outcome = "ok" /\ reqs[i].source = "store"
          /\ reqs[i].nFind = 1 /\ reqs[i].nSet = 1
    /\ ListWriteKey(pin) \in DOMAIN cache
    /\ cache[ListWriteKey(pin)].value = reqs[1].result
    /\ reqs[1].result.data # <<>>

\* the documents of the store the filter of the request selects
Matching == {i \in 1..Len(store) : MatchesFilter(store[i], pout.filter)}

\* the field the listing is ordered by, and whether a comes strictly before
\* b in the requested direction (a document without the field comes before
\* every document that has it)
OrderField ==
    IF Has(pin.sortBy) /\ InAllowList(Val(pin.sortBy)) THEN Val(pin.sortBy) ELSE W_name
OrderKey(doc) ==
    IF OrderField = W_name THEN <<doc.name>> ELSE <<>>
Ascending == ~Has(pin.sortOrder) \/ Val(pin.sortOrder) = W_asc
KeyLess(x, y) == Has(y) /\ (~Has(x) \/ StrLess(Val(x), Val(y)))
Precedes(a, b) ==
    IF Ascending THEN KeyLess(OrderKey(a), OrderKey(b))
    ELSE KeyLess(OrderKey(b), OrderKey(a))

C29_TotalAndDataAgree ==
    pout # NoValue =>
        LET data == pout.listing.data
            meta == pout.listing.meta
        IN  /\ pout.filter = MongoFilterOf(Dto(pin.name, pin.amenities, <<>>, <<>>,
                                               <<>>, <<>>, <<>>))
            /\ meta.total = Cardinality(Matching)
            /\ \A k \in 1..Len(data) : MatchesFilter(data[k], pout.filter)
            /\ Len(data) = Min2(meta.limit,
                                Max2(0, meta.total - (meta.page - 1) * meta.limit))

\* C29 witness: page 2 by twos of the three facilities: one item, total 3
C29_Witness ==
    /\ pout # NoValue
    /\ ~Has(pin.name) /\ ~Has(pin.amenities)
    /\ pin.page = <<2>> /\ pin.limit = <<2>>
    /\ pout.listing.meta.total = 3
    /\ Len(pout.listing.data) = 1

\* the request ended with NotFound or with a failure of find, count or
\* findOne
FailedAtStore(r) == r.pc = "done" /\ r.outcome \in {"not_found", "store_failure"}

\* C30: a request that raises NotFound or fails at the store performs no
\* cache set and leaves the cache as it was, nothing is cached for an
\* absent id, and the next identical request queries the store again.
C30_ErrorsAreNotCached ==
    /\ [](\A i \in 1..Len(reqs) :
            /\ FailedAtStore(reqs[i]) => reqs[i].nSet = 0 /\ ~Has(reqs[i].setKey)
            /\ (reqs[i].op = "byId" /\ ~Holds(store, reqs[i].id)) =>
                  /\ reqs[i].nSet = 0 /\ reqs[i].source # "cache"
                  /\ IdKey(reqs[i].id) \notin DOMAIN cache
                  /\ reqs[i].pc = "done" =>
                        reqs[i].outcome \in {"not_found", "store_failure", "cache_failure"}
            /\ reqs[i].source = "cache" =>
                  \E k \in 1..Len(reqs) :
                      /\ reqs[k].nSet = 1 /\ reqs[k].outcome = "ok"
                      /\ reqs[k].setKey = <<ReadKey(reqs[i])>>
                      /\ reqs[k].result = reqs[i].result)
    /\ [][\A i \in 1..Len(reqs) :
            (~FailedAtStore(reqs[i]) /\ FailedAtStore(reqs'[i])) => cache' = cache]_vars

\* C30 witness: a lookup of an absent id raised NotFound, and a later lookup
\* of the same id read the cache, missed and asked the store again
C30_Witness ==
    \E i, j \in 1..Len(reqs) :
        /\ i \in reqs[j].after
        /\ reqs[i].op = "byId" /\ reqs[j].op = "byId" /\ reqs[i].id = reqs[j].id
        /\ reqs[i].outcome = "not_found" /\ reqs[j].outcome = "not_found"
        /\ reqs[j].nGet = 1 /\ reqs[j].nFindOne = 1
        /\ reqs[i].nSet = 0 /\ reqs[j].nSet = 0

\* the store filter has no condition
FilterIsEmpty(filter) == ~Has(filter.name) /\ ~Has(filter.arr)

\* C31: 'filtered' means the same in the three places: the eligibility
\* policy (pages up to 3 only for unfiltered queries) and the TTL policy
\* treat a descriptor as unfiltered exactly when the store filter built for
\* it is empty; an empty name or an empty amenities list is unfiltered.
C31_FilteredMeansTheSame ==
    pout # NoValue =>
        /\ shouldCacheQuery(pin.name, pin.amenities, 3) <=> FilterIsEmpty(pout.filter)
        /\ (getCacheTTL(pin.name, pin.amenities) = CACHE_TTL_LIST_NO_FILTER)
              <=> FilterIsEmpty(pout.filter)
        /\ (getCacheTTL(pin.name, pin.amenities) = CACHE_TTL_LIST_WITH_FILTER)
              <=> ~FilterIsEmpty(pout.filter)
        /\ (pin.name \in {<<>>, << <<>> >>} /\ pin.amenities \in {<<>>, << <<>> >>})
              => FilterIsEmpty(pout.filter)

\* C31 witness: name '' with amenities []: the filter is empty, the whole
\* catalog is found, page 3 is eligible and the TTL is the unfiltered one
C31_Witness ==
    /\ pout # NoValue
    /\ pin.name = << <<>> >> /\ pin.amenities = << <<>> >>
    /\ FilterIsEmpty(pout.filter)
    /\ pout.total = Len(Dataset)
    /\ shouldCacheQuery(pin.name, pin.amenities, 3)
    /\ getCacheTTL(pin.name, pin.amenities) = CACHE_TTL_LIST_NO_FILTER

\* the values of the SortField enum of the request DTO
SortFieldEnum == { W_name, W_id }

\* C32: every sortBy that request validation accepts ('name', 'id') is the
\* field the store is sorted on; it is not replaced by the default.
C32_AcceptedSortByHonoured ==
    (pout # NoValue /\ Has(pin.sortBy) /\ Val(pin.sortBy) \in SortFieldEnum) =>
        pout.sort.field = Val(pin.sortBy)

\* C33: when a seed() that runs alone completes, the collection is exactly
\* the dataset, each record once and in order, whatever it held before (so
\* a second seed leaves what the first left); each insert appends the next
\* contiguous batch of at most 1000 records, and the batches cover the
\* dataset without overlap.
C33_SeedReplacesCollection ==
    /\ [][(seedPc # 0 /\ seedPc' = 0) => store' = pin]_vars
    /\ [][(seedPc = 0 /\ seedPc' # 0) => store' = <<>>]_vars
    /\ [][(seedPc # 0) =>
            LET from == Len(store)
                to == Len(store')
            IN  /\ seedPc = from + 1
                /\ store = SubSeq(pin, 1, from)
                /\ store' = store \o SubSeq(pin, from + 1, to)
                /\ to - from <= SEED_BATCH_SIZE
                /\ to - from = SEED_BATCH_SIZE \/ to = Len(pin)]_vars

\* C33 witness: a seed from a file of 1001 records, on a collection that
\* held a record of no file, has completed with its second batch, of one
\* record
C33_Witness ==
    /\ Len(pin) = SEED_BATCH_SIZE + 1
    /\ seedPc = 0
    /\ store = pin
    /\ \A i \in 1..Len(store) : store[i] = i

\* a step of seed(): deleteMany or one insertMany
SeedStep == seedPc' # seedPc \/ store' # store

\* C34: seed() leaves the cache as it is: no step of it removes or rewrites
\* an entry, so an entry written before a re-seed is still served as a hit
\* while and after the collection is replaced.
C34_SeedKeepsCache ==
    /\ [][SeedStep => cache' = cache]_vars
    /\ [](\A i \in 1..Len(reqs) :
            (reqs[i].op = "byId" /\ reqs[i].outcome = "ok" /\ ~reqs[i].present) =>
                /\ reqs[i].source = "cache"
                /\ \E j \in 1..Len(Dataset) : reqs[i].result = Dataset[j])

\* C34 witness: a lookup that began while the collection was cleared was
\* served the record from the cache
C34_Witness ==
    \E i \in 1..Len(reqs) :
        /\ reqs[i].op = "byId" /\ reqs[i].id = <<"1">>
        /\ ~reqs[i].present
        /\ reqs[i].outcome = "ok" /\ reqs[i].source = "cache"
        /\ reqs[i].result = Dataset[1]

\* what the seeded catalog alone gives for the descriptors and ids of the
\* specification, and the keys they are cached under
ListingOf == [dto \in StaleQueries |-> StoreListing(Dataset, dto)]
FoundOf == [dto \in StaleQueries |-> FindOf(Dataset, dto)]
CountedOf == [dto \in StaleQueries |-> CountOf(Dataset, dto)]
RecordOf == [id \in StaleIds |-> Val(StoreFindOne(Dataset, id))]
ListKeyOf == [dto \in StaleQueries |-> ListWriteKey(dto)]
IdKeyOf == [id \in StaleIds |-> IdKey(id)]

\* what a request returns from the seeded catalog alone
Truth(r) == IF r.op = "list" THEN ListingOf[r.dto] ELSE RecordOf[r.id]

\* the entry under key k holds what the seeded catalog gives for the
\* descriptors and ids that are cached under k
EntryIsCurrent(k) ==
    /\ \A dto \in StaleQueries : ListKeyOf[dto] = k => cache[k].value = ListingOf[dto]
    /\ \A id \in StaleIds : IdKeyOf[id] = k => cache[k].value = RecordOf[id]

\* what a request in flight has read from the store so far is what the
\* seeded catalog gives
ReadsAreCurrent(r) ==
    /\ Has(r.find) => Val(r.find) = FoundOf[r.dto]
    /\ Has(r.count) => Val(r.count) = CountedOf[r.dto]
    /\ r.pc = "write" => r.result = Truth(r)

\* a seed has completed, and no entry and no request in flight carries a
\* read from before its completion
Settled ==
    /\ seedPc = 0 /\ store = Dataset
    /\ \A k \in DOMAIN cache : EntryIsCurrent(k)
    /\ \A i \in 1..Len(reqs) : reqs[i].pc # "done" => ReadsAreCurrent(reqs[i])

C36_WriteKeyIsReadKey ==
    (pout # NoValue /\ pout.shouldCache) => pout.writeKey = pout.readKey

\* C37: in one process NestFactory.create and app.init run at most once,
\* whatever the interleaving of the handler invocations, and every invocation
\* that is served is served by that one application instance.
C37_InitialisedOnce ==
    /\ pout.creates <= 1
    /\ pout.inits <= 1
    /\ \A i \in Invocations : pout.served[i] # {} =>
           /\ Cardinality(pout.served[i]) = 1
           /\ \A j \in Invocations : pout.served[j] # {} => pout.served[j] = pout.served[i]

====
